---- MODULE Spec2Model ----
(***************************************************************************)
(* A model of comment-extract: the item pool (memoization table over a     *)
(* rustdoc item graph), the relative-path / cross-reference resolver, the  *)
(* type and item renderers, and the extraction driver that writes pages.   *)
(*                                                                         *)
(* Text is modelled as TLA+ strings (concatenated with \o), paths as       *)
(* sequences of segment strings (std::path::PathBuf components), Option    *)
(* values as records with a "some" flag, and Rc<CachedItem> handles as     *)
(* indices into the sequence `heap` of constructed CachedItem values.      *)
(***************************************************************************)
EXTENDS Integers, Sequences, FiniteSets, TLC

VARIABLES
    \* ---- ItemPool (segment.rs 141-176) ----
    loaded,         \* the packages of ItemPool.crates (its key set)
    heap,           \* every CachedItem constructed so far; Rc handle = index
    cached_items,   \* ItemPool.cached_items: ItemId -> Rc handle
    extract_items,  \* ItemPool.extract_items
    returned,       \* history: <<ItemId, handle>> of every successful lookup
    rendered,       \* history: a record of every successful render of a caller
    status,         \* "running" | "panicked" | "failed" (Err returned)
    out,            \* result of the last operation
    calls,          \* number of pool operations performed so far
    \* ---- extraction driver (segment.rs 42-139) ----
    pc,             \* position of the driver
    config,         \* Config.packages: the export selections
    items,          \* SegmentCollections.items (handles)
    pos,            \* index of the item extract() is working on
    dirs,           \* the directories that exist
    files,          \* the files that exist: path -> content
    files0,         \* the files that existed when the run began
    \* ---- relative-path resolver inputs / results (utils.rs 139-159) ----
    from_item,      \* [path, name] of the referring item
    to_item,        \* [path, name] of the referred item
    rel,            \* result of relative_to
    link,           \* result of cross_ref
    \* ---- a renderer or text filter applied on its own ----
    input,          \* the argument: a Type, a Path or a documentation text
    result          \* what the function returned for it

vars == <<loaded, heap, cached_items, extract_items, returned, rendered, status, out,
          calls,
          pc, config, items, pos, dirs, files, files0,
          from_item, to_item, rel, link, input, result>>

(***************************************************************************)
(* Bounds of the model.                                                    *)
(***************************************************************************)
MaxPathLen == 3     \* longest module path drawn for the resolver
MaxCalls == 3       \* pool operations per behaviour of the free-form pool
MaxRenders == 5     \* pool operations per behaviour of the caller that renders again

(***************************************************************************)
(* Option<T>                                                               *)
(***************************************************************************)
None == [some |-> FALSE]
Some(v) == [some |-> TRUE, val |-> v]

\* HashMap::get
MapGet(m, k) == IF k \in DOMAIN m THEN Some(m[k]) ELSE None

(***************************************************************************)
(* Text helpers                                                            *)
(***************************************************************************)
\* Vec<String>::join(sep) / PathBuf displayed with '/' separators
RECURSIVE JoinWith(_, _)
JoinWith(parts, sep) ==
    IF Len(parts) = 0 THEN ""
    ELSE IF Len(parts) = 1 THEN parts[1]
    ELSE parts[1] \o sep \o JoinWith(Tail(parts), sep)

\* PathBuf::to_str
to_str(p) == JoinWith(p, "/")

(***************************************************************************)
(* utils.rs: impl RelativeTo for Path                                      *)
(***************************************************************************)
Min(a, b) == IF a < b THEN a ELSE b

\* the loop of lines 147-152: d counts the zipped positions holding equal
\* segments
CountEqual(left, right) ==
    Cardinality({i \in 1..Min(Len(left), Len(right)) : left[i] = right[i]})

\* mutant: the whole of `other` follows the ".." segments (skip(0))
relative_to_noskip(left, right) ==
    LET d == CountEqual(left, right)
    IN [i \in 1..(Len(left) - d) |-> ".."] \o right

relative_to(left, right) ==
    LET d == CountEqual(left, right)
    IN [i \in 1..(Len(left) - d) |-> ".."] \o SubSeq(right, d + 1, Len(right))

(***************************************************************************)
(* doc_traits.rs: impl CrossRef for &T                                     *)
(***************************************************************************)
\* mutant: the link is the file name alone, without the relative directory
cross_ref_bare(from, to) == to.name \o ".md"

cross_ref(from, to) ==
    to_str(Append(relative_to(from.path, to.path), to.name \o ".md"))

cross_ref_md(from, to) ==
    "[" \o to.name \o "](" \o cross_ref(from, to) \o ")"

(***************************************************************************)
(* The item graph store: ItemPool.crates, one rustdoc_types::Crate per     *)
(* loaded package.  It is immutable input.  Types, generic arguments and   *)
(* bounds are records tagged with the rustdoc_types variant name.          *)
(***************************************************************************)
Prim(n) == [tag |-> "Primitive", name |-> n]
Generic(n) == [tag |-> "Generic", name |-> n]
PathTo(id, n, args) == [id |-> id, name |-> n, args |-> args]
Resolved(id, n, args) == [tag |-> "ResolvedPath", path |-> PathTo(id, n, args)]
Ref(lt, mut, t) == [tag |-> "BorrowedRef", lifetime |-> lt, mutable |-> mut, type_ |-> t]
Tuple(ts) == [tag |-> "Tuple", elems |-> ts]
Slice(t) == [tag |-> "Slice", type_ |-> t]
Array(t, n) == [tag |-> "Array", type_ |-> t, len |-> n]
ImplTrait(bs) == [tag |-> "ImplTrait", bounds |-> bs]
DynTrait(ts, lt) == [tag |-> "DynTrait", traits |-> ts, lifetime |-> lt]
RawPointer(t) == [tag |-> "RawPointer", type_ |-> t]
QualifiedPath(n) == [tag |-> "QualifiedPath", name |-> n]
Infer == [tag |-> "Infer"]
PolyTrait(p, gps) == [trait_ |-> p, generic_params |-> gps]
TraitBound(p, gps, m) ==
    [tag |-> "TraitBound", trait_ |-> p, generic_params |-> gps, modifier |-> m]
Outlives(a) == [tag |-> "Outlives", val |-> a]
AngleBracketed(as, bs) == [tag |-> "AngleBracketed", args |-> as, bindings |-> bs]
Parenthesized == [tag |-> "Parenthesized"]
ArgLifetime(a) == [tag |-> "Lifetime", val |-> a]
ArgType(t) == [tag |-> "Type", val |-> t]
ArgConst == [tag |-> "Const"]
EqualityType(t) == [tag |-> "Equality", term |-> [tag |-> "Type", val |-> t]]
EqualityConst == [tag |-> "Equality", term |-> [tag |-> "Constant"]]
Constraint == [tag |-> "Constraint"]
TypeBinding(n, as, b) == [name |-> n, args |-> as, binding |-> b]
NoArgs == AngleBracketed(<<>>, <<>>)

\* rustdoc_types::ItemEnum payloads
StructInner(impls) == [tag |-> "Struct", impls |-> impls]
ImplInner(tr, its) == [tag |-> "Impl", trait_ |-> tr, items |-> its]
FunctionInner(ins, outp) == [tag |-> "Function", inputs |-> ins, output |-> outp]
ModuleInner == [tag |-> "Module"]

\* rustdoc_types::Item and ItemSummary
Item(cid, n, d, inner) == [crate_id |-> cid, name |-> n, docs |-> d, inner |-> inner]
Summary(cid, p, k) == [crate_id |-> cid, path |-> p, kind |-> k]

\* A TLA+ string cannot hold a backquote: the Markdown fence character is
\* written ~ throughout the model, so the fence "~~~" stands for three
\* backquotes.
Fence == "~~~"

FooDocs ==
    "A foo.\n\n" \o Fence \o "\n# use pkg::Foo;\n#[allow(unused)]\nlet f = Foo::new();\n"
    \o Fence

PkgIndex ==
    [ Foo   |-> Item(0, Some("Foo"), Some(FooDocs),
                     StructInner(<<"impl1", "impl2", "implGone">>)),
      impl1 |-> Item(0, None, None, ImplInner(None, <<"new", "run">>)),
      impl2 |-> Item(0, None, None,
                     ImplInner(Some(PathTo("Ext", "Display", None)), <<"fmt">>)),
      new   |-> Item(0, Some("new"), Some("Creates a Foo.\nMore."),
                     FunctionInner(<<>>, Some(Resolved("Foo", "Foo", Some(NoArgs))))),
      run   |-> Item(0, Some("run"), None,
                     FunctionInner(
                        << <<"self", Ref(None, FALSE, Generic("Self"))>>,
                           <<"xs", Slice(Prim("u8"))>> >>,
                        Some(Tuple(<<Prim("bool"), Array(Prim("u8"), "4")>>)))),
      fmt   |-> Item(0, Some("fmt"), None, FunctionInner(<<>>, None)),
      Bar   |-> Item(0, Some("Bar"), Some("A bar."), StructInner(<<>>)),
      f     |-> Item(0, Some("f"), Some("\n  Does f."),
                     FunctionInner(
                        << <<"a", Resolved("Ext", "Thing",
                                   Some(AngleBracketed(
                                      <<ArgLifetime("'a"), ArgType(Generic("T"))>>,
                                      <<TypeBinding("Out", NoArgs,
                                                    EqualityType(Prim("u8")))>>)))>>,
                           <<"b", ImplTrait(<<TraitBound(PathTo("Ext2", "Option", None),
                                                         <<>>, "Maybe"),
                                              Outlives("'a")>>)>> >>,
                        Some(DynTrait(<<PolyTrait(PathTo("Bar", "Bar", None), <<>>)>>,
                                      Some("'static"))))),
      g     |-> Item(0, Some("g"), Some("Takes a pointer."),
                     FunctionInner(<< <<"p", Tuple(<<Prim("u8"),
                                                RawPointer(Prim("u8"))>>)>> >>, None)),
      h     |-> Item(0, Some("h"), None,
                     FunctionInner(<< <<"x", Resolved("Gone", "Gone", None)>> >>, None)),
      mod_a |-> Item(0, Some("mod_a"), None, ModuleInner) ]

PkgPaths ==
    [ Foo   |-> Summary(0, <<"pkg", "mod_a", "Foo">>, "struct"),
      Bar   |-> Summary(0, <<"pkg", "mod_b", "Bar">>, "struct"),
      f     |-> Summary(0, <<"pkg", "mod_a", "sub", "f">>, "function"),
      g     |-> Summary(0, <<"pkg", "mod_b", "g">>, "function"),
      h     |-> Summary(0, <<"pkg", "h">>, "function"),
      mod_a |-> Summary(0, <<"pkg", "mod_a">>, "module"),
      Ext   |-> Summary(1, <<"dep", "Thing">>, "struct"),
      Ext2  |-> Summary(2, <<"core", "option", "Option">>, "enum"),
      Ext3  |-> Summary(2, <<"core">>, "module") ]

DepIndex ==
    [ Foo |-> Item(0, Some("helper"), Some("Helps."),
                   FunctionInner(<< <<"n", Prim("usize")>> >>, Some(Prim("usize")))) ]

DepPaths ==
    [ Foo |-> Summary(0, <<"dep", "helper">>, "function") ]

Crate(ix, ps, ext, ver) ==
    [index |-> ix, paths |-> ps, external_crates |-> ext, crate_version |-> ver]

\* every package the build tool can document
World ==
    [ pkg |-> Crate(PkgIndex, PkgPaths,
                    (1 :> [name |-> "dep", html_root_url |-> Some("https://dep.example/doc/")])
                    @@ (2 :> [name |-> "core", html_root_url |-> None]),
                    Some("0.1.0")),
      dep |-> Crate(DepIndex, DepPaths, <<>>, Some("2.0.0")) ]

\* ItemPool.crates: the packages loaded by try_from (lines 70-88, 103-107)
crates == [p \in loaded |-> World[p]]

ItemId(pkg, id) == [pkg |-> pkg, id |-> id]

(***************************************************************************)
(* utils.rs: caption and hide_code_block_lines, computed on characters.    *)
(***************************************************************************)
Char(s, i) == SubSeq(s, i, i)

\* the regex class \s, Unicode White_Space: space, tab, line feed, form feed,
\* carriage return and, written as themselves, the vertical tab U+000B,
\* U+0085, U+00A0 and U+1680.  (U+2000 to U+200A, U+2028, U+2029, U+202F,
\* U+205F and U+3000 belong to the class too; a string of the model cannot
\* hold them.)
WhiteSpace ==
    {" ", "\t", "\n", "\f", "\r",
     "", "", " ", " "}

IsSpace(c) == c \in WhiteSpace

\* the white space characters that take more than one position of a string
WideSpace == {w \in WhiteSpace : Len(w) > 1}

\* the length of the white space character that s holds at position i, or 0
SpaceLen(s, i) ==
    IF i > Len(s) THEN 0
    ELSE IF Char(s, i) \in WhiteSpace THEN 1
    ELSE IF \E w \in WideSpace : i + Len(w) - 1 <= Len(s) /\ SubSeq(s, i, i + Len(w) - 1) = w
    THEN Len(CHOOSE w \in WideSpace :
                i + Len(w) - 1 <= Len(s) /\ SubSeq(s, i, i + Len(w) - 1) = w)
    ELSE 0

\* s from position i on is white space
RECURSIVE AllSpaceFrom(_, _)
AllSpaceFrom(s, i) ==
    IF i > Len(s) THEN TRUE
    ELSE IF SpaceLen(s, i) = 0 THEN FALSE
    ELSE AllSpaceFrom(s, i + SpaceLen(s, i))

AllSpace(s) == AllSpaceFrom(s, 1)

StartsWith(s, p) == Len(s) >= Len(p) /\ SubSeq(s, 1, Len(p)) = p

\* position of the first "\n" of s at or after i, or 0
RECURSIVE FindNl(_, _)
FindNl(s, i) ==
    IF i > Len(s) THEN 0
    ELSE IF Char(s, i) = "\n" THEN i
    ELSE FindNl(s, i + 1)

\* str::split('\n')
RECURSIVE SplitNl(_)
SplitNl(s) ==
    LET n == FindNl(s, 1)
    IN IF n = 0 THEN <<s>>
       ELSE <<SubSeq(s, 1, n - 1)>> \o SplitNl(SubSeq(s, n + 1, Len(s)))

StripCr(l) ==
    IF Len(l) > 0 /\ Char(l, Len(l)) = "\r" THEN SubSeq(l, 1, Len(l) - 1) ELSE l

\* str::lines: split at "\n", a final empty piece is no line, and a "\r"
\* is not part of a line when the "\n" follows it; the last line, when no
\* "\n" ends it, keeps a "\r" at its end
lines(s) ==
    LET ps == SplitNl(s)
        qs == IF ps[Len(ps)] = "" THEN SubSeq(ps, 1, Len(ps) - 1) ELSE ps
    IN [i \in 1..Len(qs) |-> IF i < Len(ps) THEN StripCr(qs[i]) ELSE qs[i]]

\* mutant: the group rust_code takes no part in the match of a fence that
\* has no label
re_code_unlabelled(line) ==
    IF ~StartsWith(line, Fence) THEN None
    ELSE LET rest == SubSeq(line, Len(Fence) + 1, Len(line))
             r2 == SubSeq(rest, 5, Len(rest))
         IN IF AllSpace(rest) THEN Some([rust_code |-> None])
            ELSE IF /\ StartsWith(rest, "rust")
                    /\ (r2 = "" \/ SpaceLen(r2, 1) > 0)
            THEN Some([rust_code |-> Some(rest)])
            ELSE None

\* re_code = ^~~~(?<rust_code>(rust(\s*|\s+.*)?)|\s*)?$ on one line: the
\* capture group rust_code takes part in every match (it can match the empty
\* string), so a match always yields Some(rust_code)
re_code(line) ==
    IF ~StartsWith(line, Fence) THEN None
    ELSE LET rest == SubSeq(line, Len(Fence) + 1, Len(line))
             r2 == SubSeq(rest, 5, Len(rest))
         IN IF \/ AllSpace(rest)
               \/ /\ StartsWith(rest, "rust")
                  /\ (r2 = "" \/ SpaceLen(r2, 1) > 0)
            THEN Some([rust_code |-> Some(rest)])
            ELSE None

\* re_show = ^[^#].*|^#\[.*
re_show(line) ==
    /\ Len(line) > 0
    /\ (Char(line, 1) # "#" \/ StartsWith(line, "#["))

\* mutant: the opening fence is emitted with the label text
ScanLine_relabel(st, line) ==
    CASE st.stat = "Rust" ->
            [stat |-> IF re_code(line).some THEN "None" ELSE "Rust",
             filtered_docs |-> IF re_show(line)
                               THEN Append(st.filtered_docs, line)
                               ELSE st.filtered_docs]
      [] st.stat = "Others" ->
            [stat |-> IF re_code(line).some THEN "None" ELSE "Others",
             filtered_docs |-> Append(st.filtered_docs, line)]
      [] OTHER ->
            LET cap == re_code(line)
            IN IF cap.some
               THEN IF cap.val.rust_code.some
                    THEN [stat |-> "Rust",
                          filtered_docs |-> Append(st.filtered_docs, Fence \o "text")]
                    ELSE [stat |-> "Others",
                          filtered_docs |-> Append(st.filtered_docs, line)]
               ELSE [stat |-> "None",
                     filtered_docs |-> Append(st.filtered_docs, line)]

\* one iteration of the loop of hide_code_block_lines (lines 98-134) on the
\* scanner state st = [stat, filtered_docs]
ScanLine(st, line) ==
    CASE st.stat = "Rust" ->
            [stat |-> IF re_code(line).some THEN "None" ELSE "Rust",
             filtered_docs |-> IF re_show(line)
                               THEN Append(st.filtered_docs, line)
                               ELSE st.filtered_docs]
      [] st.stat = "Others" ->
            [stat |-> IF re_code(line).some THEN "None" ELSE "Others",
             filtered_docs |-> Append(st.filtered_docs, line)]
      [] OTHER ->
            LET cap == re_code(line)
            IN IF cap.some
               THEN IF cap.val.rust_code.some
                    THEN [stat |-> "Rust",
                          filtered_docs |-> Append(st.filtered_docs, Fence \o "rust")]
                    ELSE [stat |-> "Others",
                          filtered_docs |-> Append(st.filtered_docs, line)]
               ELSE [stat |-> "None",
                     filtered_docs |-> Append(st.filtered_docs, line)]

RECURSIVE ScanLines(_, _)
ScanLines(st, ls) ==
    IF Len(ls) = 0 THEN st ELSE ScanLines(ScanLine(st, Head(ls)), Tail(ls))

hide_code_block_lines(docs) ==
    JoinWith(ScanLines([stat |-> "None", filtered_docs |-> <<>>], lines(docs)).filtered_docs,
             "\n")

\* number of leading whitespace characters of s, counted from position i
RECURSIVE LeadingSpace(_, _)
LeadingSpace(s, i) ==
    IF SpaceLen(s, i) > 0 THEN LeadingSpace(s, i + SpaceLen(s, i)) ELSE i - 1

\* caption: the regex (?:^\s*\n*)*(?P<caption>^\w*.*)(?:\n?)$? in multi-line
\* mode skips leading whitespace back to the last line start, and captures
\* that line
caption(item) ==
    IF ~item.docs.some THEN ""
    ELSE LET docs == item.docs.val
             w == LeadingSpace(docs, 1)
             starts == {q \in 0..w : q = 0 \/ Char(docs, q) = "\n"}
             p == CHOOSE q \in starts : \A r \in starts : r <= q
             n == FindNl(docs, p + 1)
         IN SubSeq(docs, p + 1, IF n = 0 THEN Len(docs) ELSE n - 1)

(***************************************************************************)
(* segment.rs: CachedItem.  A pool value P is [heap, cached]; operations   *)
(* that can panic return [ok, val], those that also touch the pool         *)
(* [ok, val, pool].                                                        *)
(***************************************************************************)
Ok(v) == [ok |-> TRUE, val |-> v]
Panic == [ok |-> FALSE]
OkP(v, P) == [ok |-> TRUE, val |-> v, pool |-> P]
PanicP(P) == [ok |-> FALSE, pool |-> P]

\* r.unwrap() / r? followed by the rest of the function: a panic in r ends
\* the function with the pool as r left it
Then(r, K(_)) == IF r.ok THEN K(r) ELSE PanicP(r.pool)
\* the same for a result that carries no pool
ThenV(r, P, K(_)) == IF r.ok THEN K(r) ELSE PanicP(P)

\* summ.path.iter().rev().skip(1).rev().collect::<PathBuf>()
DropLast(p) == IF Len(p) = 0 THEN <<>> ELSE SubSeq(p, 1, Len(p) - 1)

new_with_path(id, path) ==
    IF id.pkg \notin DOMAIN crates THEN Panic
    ELSE LET crate_ == crates[id.pkg]
             item == MapGet(crate_.index, id.id)
             item_summary == MapGet(crate_.paths, id.id)
         IN Ok([id |-> id,
                item |-> item,
                item_summary |-> item_summary,
                path |-> IF item_summary.some
                         THEN DropLast(item_summary.val.path)
                         ELSE path])

\* mutant: an id without a path summary is constructed with the empty path
new_lenient(id) ==
    IF id.pkg \notin DOMAIN crates THEN Panic
    ELSE LET item_summary == MapGet(crates[id.pkg].paths, id.id)
         IN IF ~item_summary.some THEN new_with_path(id, <<>>)
            ELSE new_with_path(id, DropLast(item_summary.val.path))

new(id) ==
    IF id.pkg \notin DOMAIN crates THEN Panic
    ELSE LET item_summary == MapGet(crates[id.pkg].paths, id.id)
         IN IF ~item_summary.some THEN Panic
            ELSE new_with_path(id, DropLast(item_summary.val.path))

\* Rc::new followed by cached_items.insert
Store(P, id, c) ==
    LET rc == Len(P.heap) + 1
    IN OkP(rc, [heap |-> Append(P.heap, c), cached |-> P.cached @@ (id :> rc)])

\* mutant: the memoization table is not consulted
get_uncached(P, id) ==
    LET c == new(id) IN IF c.ok THEN Store(P, id, c.val) ELSE PanicP(P)

get(P, id) ==
    IF id \in DOMAIN P.cached THEN OkP(P.cached[id], P)
    ELSE LET c == new(id) IN IF c.ok THEN Store(P, id, c.val) ELSE PanicP(P)

\* mutant: a second insert replaces the entry
insert_with_path_replacing(P, id, path) ==
    LET c == new_with_path(id, path)
    IN IF c.ok
       THEN LET rc == Len(P.heap) + 1
            IN OkP(rc, [heap |-> Append(P.heap, c.val),
                        cached |-> [k \in DOMAIN P.cached \cup {id} |->
                                       IF k = id THEN rc ELSE P.cached[k]]])
       ELSE PanicP(P)

\* mutant: a cached item is returned only if it was stored with the same
\* path
insert_with_path_same_path(P, id, path) ==
    IF id \in DOMAIN P.cached /\ P.heap[P.cached[id]].path = path
    THEN OkP(P.cached[id], P)
    ELSE LET c == new_with_path(id, path)
         IN IF c.ok
            THEN LET rc == Len(P.heap) + 1
                 IN OkP(rc, [heap |-> Append(P.heap, c.val),
                             cached |-> [k \in DOMAIN P.cached \cup {id} |->
                                            IF k = id THEN rc ELSE P.cached[k]]])
            ELSE PanicP(P)

\* mutant: a cached item takes the path supplied by the latest call
insert_with_path_repath(P, id, path) ==
    IF id \in DOMAIN P.cached
    THEN OkP(P.cached[id],
             [heap |-> [P.heap EXCEPT ![P.cached[id]].path = path], cached |-> P.cached])
    ELSE LET c == new_with_path(id, path)
         IN IF c.ok THEN Store(P, id, c.val) ELSE PanicP(P)

insert_with_path(P, id, path) ==
    IF id \in DOMAIN P.cached THEN OkP(P.cached[id], P)
    ELSE LET c == new_with_path(id, path)
         IN IF c.ok THEN Store(P, id, c.val) ELSE PanicP(P)

\* mutant: the items of trait impls are taken too
RECURSIVE AllImplItems(_, _)
AllImplItems(crate_, impls) ==
    IF Len(impls) = 0 THEN <<>>
    ELSE LET it == MapGet(crate_.index, Head(impls))
             here == IF it.some /\ it.val.inner.tag = "Impl"
                     THEN it.val.inner.items
                     ELSE <<>>
         IN here \o AllImplItems(crate_, Tail(impls))

\* lines 232-243: the items of the impl blocks of a struct that are in the
\* index and have no trait, in impl order then item order
RECURSIVE InherentItems(_, _)
InherentItems(crate_, impls) ==
    IF Len(impls) = 0 THEN <<>>
    ELSE LET it == MapGet(crate_.index, Head(impls))
             here == IF it.some /\ it.val.inner.tag = "Impl" /\ ~it.val.inner.trait_.some
                     THEN it.val.inner.items
                     ELSE <<>>
         IN here \o InherentItems(crate_, Tail(impls))

\* mutant: the method directory is the struct's own directory
MethodPath_flat(self) == Ok(self.path)

\* line 247: self.path.join(item.name.as_ref().unwrap())
MethodPath(self) ==
    IF self.item.val.name.some
    THEN Ok(Append(self.path, self.item.val.name.val))
    ELSE Panic

\* lines 244-250: insert_with_path for each method id, in order
RECURSIVE InsertMethods(_, _, _)
InsertMethods(P, self, ids) ==
    IF Len(ids) = 0 THEN OkP(<<>>, P)
    ELSE ThenV(MethodPath(self), P, LAMBDA mp :
         Then(insert_with_path(P, ItemId(self.id.pkg, Head(ids)), mp.val), LAMBDA r :
         Then(InsertMethods(r.pool, self, Tail(ids)), LAMBDA rest :
         OkP(<<r.val>> \o rest.val, rest.pool))))

associated_methods(P, rc) ==
    LET self == P.heap[rc]
    IN IF self.item.some /\ self.item.val.inner.tag = "Struct"
       THEN InsertMethods(P, self,
                          InherentItems(crates[self.id.pkg], self.item.val.inner.impls))
       ELSE OkP(<<>>, P)

kind(self) ==
    IF self.item_summary.some THEN self.item_summary.val.kind ELSE "function"

crate_version(self) ==
    IF crates[self.id.pkg].crate_version.some
    THEN Ok(crates[self.id.pkg].crate_version.val)
    ELSE Panic

url_path(self) == JoinWith(self.path, "/")

html_root_url(self) ==
    LET crate_id == IF self.item.some THEN Some(self.item.val.crate_id)
                    ELSE IF self.item_summary.some
                         THEN Some(self.item_summary.val.crate_id)
                         ELSE None
    IN IF ~crate_id.some THEN Panic
       ELSE LET ext == MapGet(crates[self.id.pkg].external_crates, crate_id.val)
            IN IF ext.some /\ ext.val.html_root_url.some
               THEN Ok(ext.val.html_root_url.val)
               ELSE IF Len(self.path) = 0 THEN Panic
               ELSE LET pkg == self.path[1]
                    IN IF pkg \in DOMAIN crates
                       THEN LET v == crate_version(self)
                            IN IF v.ok
                               THEN Ok("https://docs.rs/" \o pkg \o "/" \o v.val \o "/")
                               ELSE Panic
                       ELSE Ok("https://docs.rs/" \o pkg \o "/latest/")

docs(self) ==
    hide_code_block_lines(IF self.item.some /\ self.item.val.docs.some
                          THEN self.item.val.docs.val
                          ELSE "")

name(self) ==
    IF self.item.some /\ self.item.val.name.some THEN Ok(self.item.val.name.val)
    ELSE IF self.item_summary.some /\ Len(self.item_summary.val.path) > 0
         THEN Ok(self.item_summary.val.path[Len(self.item_summary.val.path)])
         ELSE Panic

path(self) == self.path

\* impl ExternalLink for CachedItem
external_link(self) ==
    LET root == html_root_url(self)
        n == name(self)
    IN IF root.ok /\ n.ok
       THEN Ok(root.val \o url_path(self) \o "/" \o kind(self) \o "." \o n.val \o ".html")
       ELSE Panic

\* impl ExternalLink for Type (lines 452-466): the link of a primitive, or
\* of the item a resolved path names, looked up in the pool
external_link_Type(P, root, t) ==
    CASE t.tag = "Primitive" ->
            OkP("https://doc.rust-lang.org/std/primitive." \o t.name \o ".html", P)
      [] t.tag = "ResolvedPath" ->
            Then(get(P, ItemId(root.id.pkg, t.path.id)), LAMBDA item :
            ThenV(external_link(item.pool.heap[item.val]), item.pool, LAMBDA href :
            OkP(href.val, item.pool)))
      [] OTHER -> PanicP(P)

(***************************************************************************)
(* segment.rs: the renderers (impl Repr for ...).  Each takes the pool,    *)
(* the root item and a node, and returns [ok, val, pool]: the text, and    *)
(* the pool after the lookups the rendering made.  ok = FALSE is a panic   *)
(* (unimplemented!() or a failed unwrap()).                                *)
(***************************************************************************)
RECURSIVE repr_Type(_, _, _)
RECURSIVE repr_Types(_, _, _)
RECURSIVE repr_Path(_, _, _)
RECURSIVE repr_PolyTraits(_, _, _)
RECURSIVE repr_GenericArgs(_, _, _)
RECURSIVE repr_GenericArgList(_, _, _)
RECURSIVE repr_TypeBinding(_, _, _)
RECURSIVE repr_TypeBindings(_, _, _)
RECURSIVE repr_GenericBound(_, _, _)
RECURSIVE repr_GenericBounds(_, _, _)

\* tuple.iter().map(|tpe| tpe.repr(root)): the texts, left to right
repr_Types(P, root, ts) ==
    IF Len(ts) = 0 THEN OkP(<<>>, P)
    ELSE Then(repr_Type(P, root, Head(ts)), LAMBDA r :
         Then(repr_Types(r.pool, root, Tail(ts)), LAMBDA rest :
         OkP(<<r.val>> \o rest.val, rest.pool)))

\* impl Repr for rustdoc_types::Path
repr_Path(P, root, p) ==
    Then(get(P, ItemId(root.id.pkg, p.id)), LAMBDA item :
    ThenV(external_link(item.pool.heap[item.val]), item.pool, LAMBDA href :
    Then(IF p.args.some
         THEN repr_GenericArgs(item.pool, root, p.args.val)
         ELSE OkP("", item.pool), LAMBDA args :
    OkP("<a href=\"" \o href.val \o "\">" \o p.name \o "</a>" \o args.val,
        args.pool))))

\* dyn_trait.traits.iter().map(...) of Type::DynTrait
repr_PolyTraits(P, root, ts) ==
    IF Len(ts) = 0 THEN OkP(<<>>, P)
    ELSE IF Len(Head(ts).generic_params) # 0 THEN PanicP(P)
    ELSE Then(repr_Path(P, root, Head(ts).trait_), LAMBDA r :
         Then(repr_PolyTraits(r.pool, root, Tail(ts)), LAMBDA rest :
         OkP(<<r.val>> \o rest.val, rest.pool)))

\* mutant: a variant that is not rendered is replaced by the empty text
repr_Type_placeholder(P, root, t) ==
    CASE t.tag = "Primitive" ->
            Then(external_link_Type(P, root, t), LAMBDA href :
            OkP("<a href=\"" \o href.val \o "\">" \o t.name \o "</a>", href.pool))
      [] t.tag = "ResolvedPath" -> repr_Path(P, root, t.path)
      [] t.tag = "DynTrait" ->
            Then(repr_PolyTraits(P, root, t.traits), LAMBDA r :
            OkP("dyn " \o JoinWith(r.val \o (IF t.lifetime.some
                                             THEN <<t.lifetime.val>>
                                             ELSE <<>>), " + "),
                r.pool))
      [] t.tag = "Generic" -> OkP(t.name, P)
      [] t.tag = "BorrowedRef" ->
            Then(repr_Type(P, root, t.type_), LAMBDA r :
            OkP("&" \o (IF t.lifetime.some THEN t.lifetime.val \o " " ELSE "")
                \o (IF t.mutable THEN "mut " ELSE "") \o r.val, r.pool))
      [] t.tag = "Tuple" ->
            Then(repr_Types(P, root, t.elems), LAMBDA r :
            OkP("(" \o JoinWith(r.val, ", ") \o ")", r.pool))
      [] t.tag = "Slice" ->
            Then(repr_Type(P, root, t.type_), LAMBDA r :
            OkP("[" \o r.val \o "]", r.pool))
      [] t.tag = "Array" ->
            Then(repr_Type(P, root, t.type_), LAMBDA r :
            OkP("[" \o r.val \o ": " \o t.len \o "]", r.pool))
      [] t.tag = "ImplTrait" ->
            Then(repr_GenericBounds(P, root, t.bounds), LAMBDA r :
            OkP("impl " \o JoinWith(r.val, " + "), r.pool))
      [] OTHER -> OkP("", P)

\* impl Repr for Type
repr_Type(P, root, t) ==
    CASE t.tag = "Primitive" ->
            Then(external_link_Type(P, root, t), LAMBDA href :
            OkP("<a href=\"" \o href.val \o "\">" \o t.name \o "</a>", href.pool))
      [] t.tag = "ResolvedPath" -> repr_Path(P, root, t.path)
      [] t.tag = "DynTrait" ->
            Then(repr_PolyTraits(P, root, t.traits), LAMBDA r :
            OkP("dyn " \o JoinWith(r.val \o (IF t.lifetime.some
                                             THEN <<t.lifetime.val>>
                                             ELSE <<>>), " + "),
                r.pool))
      [] t.tag = "Generic" -> OkP(t.name, P)
      [] t.tag = "BorrowedRef" ->
            Then(repr_Type(P, root, t.type_), LAMBDA r :
            OkP("&" \o (IF t.lifetime.some THEN t.lifetime.val \o " " ELSE "")
                \o (IF t.mutable THEN "mut " ELSE "") \o r.val, r.pool))
      [] t.tag = "Tuple" ->
            Then(repr_Types(P, root, t.elems), LAMBDA r :
            OkP("(" \o JoinWith(r.val, ", ") \o ")", r.pool))
      [] t.tag = "Slice" ->
            Then(repr_Type(P, root, t.type_), LAMBDA r :
            OkP("[" \o r.val \o "]", r.pool))
      [] t.tag = "Array" ->
            Then(repr_Type(P, root, t.type_), LAMBDA r :
            OkP("[" \o r.val \o ": " \o t.len \o "]", r.pool))
      [] t.tag = "ImplTrait" ->
            Then(repr_GenericBounds(P, root, t.bounds), LAMBDA r :
            OkP("impl " \o JoinWith(r.val, " + "), r.pool))
      [] OTHER -> PanicP(P)

\* impl Repr for TypeBinding
repr_TypeBinding(P, root, b) ==
    Then(repr_GenericArgs(P, root, b.args), LAMBDA args :
    IF b.binding.tag = "Equality" /\ b.binding.term.tag = "Type"
    THEN Then(repr_Type(args.pool, root, b.binding.term.val), LAMBDA v :
         OkP(b.name \o args.val \o v.val, v.pool))
    ELSE PanicP(args.pool))

repr_TypeBindings(P, root, bs) ==
    IF Len(bs) = 0 THEN OkP(<<>>, P)
    ELSE Then(repr_TypeBinding(P, root, Head(bs)), LAMBDA r :
         Then(repr_TypeBindings(r.pool, root, Tail(bs)), LAMBDA rest :
         OkP(<<r.val>> \o rest.val, rest.pool)))

\* args.iter().map(|arg| match arg {...}) of GenericArgs::AngleBracketed
repr_GenericArgList(P, root, as) ==
    IF Len(as) = 0 THEN OkP(<<>>, P)
    ELSE Then(CASE Head(as).tag = "Lifetime" -> OkP(Head(as).val, P)
                [] Head(as).tag = "Type" -> repr_Type(P, root, Head(as).val)
                [] OTHER -> PanicP(P), LAMBDA r :
         Then(repr_GenericArgList(r.pool, root, Tail(as)), LAMBDA rest :
         OkP(<<r.val>> \o rest.val, rest.pool)))

\* mutant: the brackets are emitted for an empty argument list too
repr_GenericArgs_brackets(P, root, ga) ==
    IF ga.tag # "AngleBracketed" THEN PanicP(P)
    ELSE Then(repr_GenericArgList(P, root, ga.args), LAMBDA as :
         Then(repr_TypeBindings(as.pool, root, ga.bindings), LAMBDA bs :
         OkP("&lt;" \o JoinWith(as.val \o bs.val, ", ") \o "&gt;", bs.pool)))

\* impl Repr for GenericArgs
repr_GenericArgs(P, root, ga) ==
    IF ga.tag # "AngleBracketed" THEN PanicP(P)
    ELSE IF Len(ga.args) = 0 /\ Len(ga.bindings) = 0 THEN OkP("", P)
    ELSE Then(repr_GenericArgList(P, root, ga.args), LAMBDA as :
         Then(repr_TypeBindings(as.pool, root, ga.bindings), LAMBDA bs :
         OkP("&lt;" \o JoinWith(as.val \o bs.val, ", ") \o "&gt;", bs.pool)))

\* impl Repr for GenericBound
repr_GenericBound(P, root, b) ==
    IF b.tag = "Outlives" THEN OkP(b.val, P)
    ELSE IF Len(b.generic_params) # 0 \/ b.modifier = "MaybeConst" THEN PanicP(P)
    ELSE Then(repr_Path(P, root, b.trait_), LAMBDA r :
         OkP((IF b.modifier = "Maybe" THEN "?" ELSE "") \o r.val, r.pool))

repr_GenericBounds(P, root, bs) ==
    IF Len(bs) = 0 THEN OkP(<<>>, P)
    ELSE Then(repr_GenericBound(P, root, Head(bs)), LAMBDA r :
         Then(repr_GenericBounds(r.pool, root, Tail(bs)), LAMBDA rest :
         OkP(<<r.val>> \o rest.val, rest.pool)))

\* func.decl.inputs.iter().map(|(n, t)| format!(...)) of ItemEnum::Function
RECURSIVE repr_Inputs(_, _, _)
repr_Inputs(P, root, ins) ==
    IF Len(ins) = 0 THEN OkP(<<>>, P)
    ELSE Then(repr_Type(P, root, Head(ins)[2]), LAMBDA r :
         Then(repr_Inputs(r.pool, root, Tail(ins)), LAMBDA rest :
         OkP(<<"<em class=\"sig-param n\">\n    <span class=\"pre\">"
               \o Head(ins)[1] \o "</span>: <span class=\"pre\">"
               \o r.val \o "</span>\n</em>">> \o rest.val,
             rest.pool)))

\* impl Repr for ItemEnum
repr_ItemEnum(P, root, inner) ==
    IF inner.tag # "Function" THEN PanicP(P)
    ELSE Then(repr_Inputs(P, root, inner.inputs), LAMBDA ins :
         Then(IF inner.output.some
              THEN repr_Type(ins.pool, root, inner.output.val)
              ELSE OkP("", ins.pool), LAMBDA outp :
         OkP("<span class=\"sig-paren\">(</span>\n"
             \o JoinWith(ins.val, ", ")
             \o "\n<span class=\"sig-paren\">)</span>\n"
             \o (IF inner.output.some THEN " → " \o outp.val ELSE ""),
             outp.pool)))

\* lines 392-398: one table row per associated method
RECURSIVE MethodRows(_, _, _)
MethodRows(P, self, methods) ==
    IF Len(methods) = 0 THEN OkP(<<>>, P)
    ELSE IF ~P.heap[Head(methods)].item.some THEN PanicP(P)
    ELSE ThenV(name(P.heap[Head(methods)]), P, LAMBDA n :
         Then(MethodRows(P, self, Tail(methods)), LAMBDA rest :
         OkP(<<"| " \o cross_ref_md(self, [path |-> path(P.heap[Head(methods)]),
                                           name |-> n.val])
               \o " | " \o caption(P.heap[Head(methods)].item.val) \o " |">>
             \o rest.val, P)))

\* mutant: the Methods section is emitted whatever the rows are
StructPage_always(n, d, methods) ==
    "# " \o n \o "\n\n" \o d
    \o "\n\n# Methods\n| Method | Description |\n| --- | --- |\n" \o methods

\* lines 402-411
StructPage(n, d, methods) ==
    IF methods # ""
    THEN "# " \o n \o "\n\n" \o d
         \o "\n\n# Methods\n| Method | Description |\n| --- | --- |\n" \o methods
    ELSE "# " \o n \o "\n\n" \o d

\* lines 367-385
FunctionPage(n, sig, d) ==
    "# " \o n \o "\n\n<dl>\n    <dt class=\"sig\">\n    <span class=\"sig-name\">\n"
    \o "        <span class=\"pre\">" \o n \o "</span>\n    </span>\n    " \o sig
    \o "\n    </dt>\n</dl>\n\n" \o d \o "\n"

\* impl Repr for CachedItem
repr_CachedItem(P, rc) ==
    CASE kind(P.heap[rc]) = "function" ->
            ThenV(name(P.heap[rc]), P, LAMBDA n :
            IF ~P.heap[rc].item.some THEN PanicP(P)
            ELSE Then(repr_ItemEnum(P, P.heap[rc], P.heap[rc].item.val.inner),
                      LAMBDA sig :
                 OkP(FunctionPage(n.val, sig.val, docs(P.heap[rc])), sig.pool)))
      [] kind(P.heap[rc]) = "struct" ->
            Then(associated_methods(P, rc), LAMBDA ms :
            Then(MethodRows(ms.pool, P.heap[rc], ms.val), LAMBDA rows :
            ThenV(name(P.heap[rc]), ms.pool, LAMBDA n :
            OkP(StructPage(n.val, docs(P.heap[rc]), JoinWith(rows.val, "\n")),
                ms.pool))))
      [] OTHER -> PanicP(P)

(***************************************************************************)
(* The free-form pool: any sequence of at most MaxCalls operations on a    *)
(* freshly constructed ItemPool.  A panic ends the process.                *)
(***************************************************************************)
Pool == [heap |-> heap, cached |-> cached_items]

\* item identifiers the callers ask for
ProbeIds ==
    {ItemId("pkg", i) : i \in {"Foo", "Bar", "new", "fmt", "f", "g", "h", "mod_a",
                               "Ext", "Ext2", "Ext3", "Gone"}}
    \cup {ItemId("dep", "Foo"), ItemId("nope", "Foo")}

\* synthetic paths handed to insert_with_path
ProbePaths == {<<"pkg", "mod_a", "Foo">>, <<>>}

IdleDriver ==
    /\ pc = "idle" /\ config = <<>> /\ items = <<>> /\ pos = 0
    /\ dirs = {} /\ files = <<>> /\ files0 = <<>>

IdlePath ==
    /\ from_item = [path |-> <<>>, name |-> ""]
    /\ to_item = [path |-> <<>>, name |-> ""]
    /\ rel = <<>> /\ link = ""
    /\ input = <<>> /\ result = <<>>

EmptyPool ==
    /\ heap = <<>> /\ cached_items = <<>> /\ extract_items = <<>>
    /\ returned = {} /\ rendered = {} /\ status = "running" /\ calls = 0
    /\ out = [op |-> "none"]

Init ==
    /\ loaded \in {{"pkg"}, {"pkg", "dep"}}
    /\ EmptyPool /\ IdleDriver /\ IdlePath

\* the caller that renders pages again (pc = "pages") makes up to MaxRenders
\* calls, any other caller up to MaxCalls
CanCall ==
    status = "running" /\ calls < (IF pc = "pages" THEN MaxRenders ELSE MaxCalls)

\* the effect of an operation result r on the pool variables
Commit(r) ==
    /\ heap' = r.pool.heap
    /\ cached_items' = r.pool.cached
    /\ status' = IF r.ok THEN "running" ELSE "panicked"
    /\ calls' = calls + 1
    /\ UNCHANGED <<loaded, extract_items, pc, config, items, pos, dirs, files, files0,
                   from_item, to_item, rel, link, input, result>>

Get(id) ==
    /\ CanCall
    /\ \E r \in {get(Pool, id)} :
          /\ Commit(r)
          /\ returned' = IF r.ok THEN returned \cup {<<id, r.val>>} ELSE returned
          /\ UNCHANGED rendered
          /\ out' = IF r.ok THEN [op |-> "get", id |-> id, ok |-> TRUE, val |-> r.val]
                    ELSE [op |-> "get", id |-> id, ok |-> FALSE]

InsertWithPath(id, p) ==
    /\ CanCall
    /\ \E r \in {insert_with_path(Pool, id, p)} :
          /\ Commit(r)
          /\ returned' = IF r.ok THEN returned \cup {<<id, r.val>>} ELSE returned
          /\ UNCHANGED rendered
          /\ out' = IF r.ok
                    THEN [op |-> "insert_with_path", id |-> id, path |-> p,
                          ok |-> TRUE, val |-> r.val]
                    ELSE [op |-> "insert_with_path", id |-> id, path |-> p,
                          ok |-> FALSE]

AssociatedMethods(rc) ==
    /\ CanCall
    /\ \E r \in {associated_methods(Pool, rc)} :
          /\ Commit(r)
          /\ returned' = IF r.ok
                         THEN returned \cup {<<r.pool.heap[r.val[i]].id, r.val[i]>> :
                                                i \in 1..Len(r.val)}
                         ELSE returned
          /\ UNCHANGED rendered
          /\ out' = IF r.ok
                    THEN [op |-> "associated_methods", rc |-> rc, ok |-> TRUE,
                          val |-> r.val]
                    ELSE [op |-> "associated_methods", rc |-> rc, ok |-> FALSE]

Render(rc) ==
    /\ CanCall
    /\ \E r \in {repr_CachedItem(Pool, rc)} :
          /\ Commit(r)
          /\ UNCHANGED returned
          \* the text, the number of the call, and the size of the table
          \* before and after the render
          /\ rendered' = IF r.ok
                         THEN rendered \cup {[rc |-> rc, val |-> r.val, at |-> calls + 1,
                                              before |-> Len(heap),
                                              after |-> Len(r.pool.heap)]}
                         ELSE rendered
          /\ out' = IF r.ok
                    THEN [op |-> "repr", rc |-> rc, ok |-> TRUE, val |-> r.val]
                    ELSE [op |-> "repr", rc |-> rc, ok |-> FALSE]

ExternalLink(rc) ==
    /\ CanCall
    /\ \E r \in {external_link(heap[rc])} :
          /\ Commit([ok |-> r.ok, pool |-> Pool])
          /\ UNCHANGED <<returned, rendered>>
          /\ out' = IF r.ok
                    THEN [op |-> "external_link", rc |-> rc, ok |-> TRUE, val |-> r.val]
                    ELSE [op |-> "external_link", rc |-> rc, ok |-> FALSE]

\* types handed to <Type as ExternalLink>::external_link
ProbeTypes ==
    {Prim("u8"), Resolved("Bar", "Bar", None), Resolved("Ext", "Thing", None),
     Resolved("Gone", "Gone", None), Generic("T")}

\* tpe.external_link(root), root being the item of handle rc
ExternalLinkType(rc, t) ==
    /\ CanCall
    /\ \E r \in {external_link_Type(Pool, heap[rc], t)} :
          /\ Commit(r)
          /\ UNCHANGED <<returned, rendered>>
          /\ out' = IF r.ok
                    THEN [op |-> "external_link_type", rc |-> rc, type |-> t,
                          ok |-> TRUE, val |-> r.val]
                    ELSE [op |-> "external_link_type", rc |-> rc, type |-> t,
                          ok |-> FALSE]

Next ==
    \/ \E id \in ProbeIds : Get(id)
    \/ \E id \in ProbeIds, p \in ProbePaths : InsertWithPath(id, p)
    \/ \E rc \in 1..Len(heap) : AssociatedMethods(rc)
    \/ \E rc \in 1..Len(heap) : Render(rc)
    \/ \E rc \in 1..Len(heap) : ExternalLink(rc)
    \/ \E rc \in 1..Len(heap), t \in ProbeTypes : ExternalLinkType(rc, t)

Spec == Init /\ [][Next]_vars

(***************************************************************************)
(* A caller that renders pages again: up to MaxRenders operations on one   *)
(* pool, over the items of package pkg that link to one another.           *)
(***************************************************************************)
PageIds == {ItemId("pkg", i) : i \in {"Foo", "new", "Bar", "f"}}

PageTypes == {Resolved("Bar", "Bar", None)}

InitRender ==
    /\ loaded = {"pkg"}
    /\ EmptyPool /\ IdlePath
    /\ pc = "pages" /\ config = <<>> /\ items = <<>> /\ pos = 0
    /\ dirs = {} /\ files = <<>> /\ files0 = <<>>

NextRender ==
    \/ \E id \in PageIds : Get(id)
    \/ \E id \in PageIds, p \in ProbePaths : InsertWithPath(id, p)
    \/ \E rc \in 1..Len(heap) : AssociatedMethods(rc)
    \/ \E rc \in 1..Len(heap) : Render(rc)
    \/ \E rc \in 1..Len(heap) : ExternalLink(rc)
    \/ \E rc \in 1..Len(heap), t \in PageTypes : ExternalLinkType(rc, t)

SpecRender == InitRender /\ [][NextRender]_vars

(***************************************************************************)
(* The resolver on its own: relative_to and cross_ref applied to every     *)
(* pair of module paths of at most MaxPathLen segments.                    *)
(***************************************************************************)
Segments == {"pkg", "a", "b"}

PathsUpTo(n) == UNION {[1..k -> Segments] : k \in 0..n}

InitPath ==
    /\ loaded = {"pkg"}
    /\ EmptyPool
    /\ config = <<>> /\ items = <<>> /\ pos = 0
    /\ dirs = {} /\ files = <<>> /\ files0 = <<>>
    /\ pc = "input"
    /\ from_item \in [path : PathsUpTo(MaxPathLen), name : {"Foo"}]
    /\ to_item \in [path : PathsUpTo(MaxPathLen), name : {"Foo", "run"}]
    /\ rel = <<>> /\ link = ""
    /\ input = <<>> /\ result = <<>>

RelativeTo ==
    /\ pc = "input"
    /\ rel' = relative_to(path(from_item), path(to_item))
    /\ pc' = "relative"
    /\ UNCHANGED <<loaded, heap, cached_items, extract_items, returned, rendered, status, out,
                   calls, config, items, pos, dirs, files, files0,
                   from_item, to_item, link, input, result>>

CrossRef ==
    /\ pc = "relative"
    /\ link' = cross_ref(from_item, to_item)
    /\ pc' = "linked"
    /\ UNCHANGED <<loaded, heap, cached_items, extract_items, returned, rendered, status, out,
                   calls, config, items, pos, dirs, files, files0,
                   from_item, to_item, rel, input, result>>

NextPath == RelativeTo \/ CrossRef

SpecPath == InitPath /\ [][NextPath]_vars

\* a relative path resolved against a directory: ".." removes the last
\* segment, any other segment is appended
RECURSIVE Resolve(_, _)
Resolve(dir, segs) ==
    IF Len(segs) = 0 THEN dir
    ELSE Resolve(IF Head(segs) = ".." THEN DropLast(dir) ELSE Append(dir, Head(segs)),
                 Tail(segs))

\* position of the first "/" of s at or after i, or 0
RECURSIVE FindSlash(_, _)
FindSlash(s, i) ==
    IF i > Len(s) THEN 0
    ELSE IF Char(s, i) = "/" THEN i
    ELSE FindSlash(s, i + 1)

\* the segments of a link target
RECURSIVE SplitSlash(_)
SplitSlash(s) ==
    LET n == FindSlash(s, 1)
    IN IF n = 0 THEN <<s>>
       ELSE <<SubSeq(s, 1, n - 1)>> \o SplitSlash(SubSeq(s, n + 1, Len(s)))

SameRoot ==
    /\ Len(from_item.path) > 0 /\ Len(to_item.path) > 0
    /\ from_item.path[1] = to_item.path[1]

\* C3: for module directories A and B with the same first segment,
\* relative_to(A, B) resolved against A is B, and the link of cross_ref
\* resolved against A is B/<name>.md.
C3_ResolvesToTarget ==
    /\ (pc \in {"relative", "linked"} /\ SameRoot)
          => Resolve(from_item.path, rel) = to_item.path
    /\ (pc = "linked" /\ SameRoot)
          => Resolve(from_item.path, SplitSlash(link))
                = Append(to_item.path, to_item.name \o ".md")

\* C4: a reference within one module directory has no ".." and no suffix
\* segment: relative_to(P, P) is empty and cross_ref is "<name>.md".
C4_SelfReference ==
    /\ (pc \in {"relative", "linked"} /\ from_item.path = to_item.path) => rel = <<>>
    /\ (pc = "linked" /\ from_item.path = to_item.path) => link = to_item.name \o ".md"

C4_Witness ==
    /\ pc = "linked"
    /\ from_item.path = to_item.path
    /\ Len(from_item.path) >= 2
    /\ from_item.name # to_item.name

(***************************************************************************)
(* Properties of the pool.                                                 *)
(***************************************************************************)
\* C1: two successful lookups of one ItemId, by get or insert_with_path in
\* any order, return the same handle (the same Rc<CachedItem>).
C1_SameInstance ==
    \A p \in returned, q \in returned : p[1] = q[1] => p[2] = q[2]

\* a get answered from the table: the handle is older than the newest one
C1_Witness ==
    /\ out.op = "get" /\ out.ok
    /\ out.val < Len(heap)
    /\ <<out.id, out.val>> \in returned

\* C2: an entry of the memoization table is never removed or replaced, the
\* CachedItem it names never changes, and no two CachedItems are ever
\* constructed for one ItemId.
C2_OnlyGrows ==
    /\ [](\A i \in 1..Len(heap), j \in 1..Len(heap) : heap[i].id = heap[j].id => i = j)
    /\ [][\A id \in DOMAIN cached_items :
            /\ id \in DOMAIN cached_items'
            /\ cached_items'[id] = cached_items[id]
            /\ heap'[cached_items[id]] = heap[cached_items[id]]]_vars

\* the table holds entries made by get, by associated_methods and by a render
C2_Witness ==
    /\ Cardinality(DOMAIN cached_items) >= 3
    /\ out.op = "repr" /\ out.ok

\* whether sub occurs in s
Contains(s, sub) ==
    \E i \in 1..(Len(s) - Len(sub) + 1) : SubSeq(s, i, i + Len(sub) - 1) = sub

\* the named-path input types of a function item whose referenced id has no
\* index entry or no path-summary entry in the item's package
AbsentRefs(c) ==
    IF c.item.some /\ c.item.val.inner.tag = "Function"
    THEN LET ins == c.item.val.inner.inputs
         IN {ins[i][2].path : i \in {k \in 1..Len(ins) :
                /\ ins[k][2].tag = "ResolvedPath"
                /\ \/ ins[k][2].path.id \notin DOMAIN crates[c.id.pkg].index
                   \/ ins[k][2].path.id \notin DOMAIN crates[c.id.pkg].paths}}
    ELSE {}

\* C7 (as claimed): rendering a named path whose item id is absent from the
\* graph store does not abort the render and yields a link with an empty href.
C7_AbsentDegrades ==
    (out.op = "repr" /\ kind(heap[out.rc]) = "function")
        => \A p \in AbsentRefs(heap[out.rc]) :
              /\ out.ok
              /\ Contains(out.val, "<a href=\"\">" \o p.name \o "</a>")

\* the crate an item belongs to: 0 is the package being processed
CrateIdOf(c) ==
    IF c.item.some THEN c.item.val.crate_id ELSE c.item_summary.val.crate_id

Foreign(c) == (c.item.some \/ c.item_summary.some) /\ CrateIdOf(c) # 0

RecordedRootUrl(c) ==
    LET ext == MapGet(crates[c.id.pkg].external_crates, CrateIdOf(c))
    IN IF ext.some THEN ext.val.html_root_url ELSE None

\* C8 (as claimed): the external link of an item of another package is that
\* package's recorded html_root_url, or the empty string when none is
\* recorded, and resolving it never fails.
C8_ForeignLink ==
    (out.op = "external_link" /\ Foreign(heap[out.rc]))
        => /\ out.ok
           /\ out.val = IF RecordedRootUrl(heap[out.rc]).some
                        THEN RecordedRootUrl(heap[out.rc]).val
                        ELSE ""

\* C10: a rendered struct page has the "# Methods" heading and table header
\* exactly when the struct has an associated method, and then the table has
\* one row per method, in associated_methods order.
C10_MethodsSection ==
    (out.op = "repr" /\ out.ok /\ kind(heap[out.rc]) = "struct")
        => LET ls == SplitNl(out.val)
               ms == associated_methods(Pool, out.rc).val
               n == Len(ms)
               hs == {i \in 1..Len(ls) : ls[i] = "# Methods"}
           IN /\ n = 0 => /\ hs = {}
                          /\ \A i \in 1..Len(ls) : ls[i] # "| Method | Description |"
              /\ n >= 1 => \E h \in hs :
                              /\ hs = {h}
                              /\ Len(ls) = h + 2 + n
                              /\ ls[h + 1] = "| Method | Description |"
                              /\ ls[h + 2] = "| --- | --- |"
                              /\ \A i \in 1..n :
                                    StartsWith(ls[h + 2 + i],
                                               "| [" \o name(heap[ms[i]]).val \o "](")

C10_Witness ==
    /\ out.op = "repr" /\ out.ok /\ kind(heap[out.rc]) = "struct"
    /\ Len(associated_methods(Pool, out.rc).val) >= 2

(***************************************************************************)
(* The extraction driver: TryFrom<Config> for SegmentCollections, then     *)
(* SegmentCollections::extract, one step per file-system call.             *)
(***************************************************************************)
MaxOptions == 2     \* export selections per configuration

\* rustdoc_types::ItemKind, as serde_plain reads and writes it
ItemKinds ==
    {"module", "extern_crate", "import", "struct", "struct_field", "union", "enum",
     "variant", "function", "typedef", "opaque_ty", "constant", "trait",
     "trait_alias", "impl", "static", "foreign_type", "macro", "proc_attribute",
     "proc_derive", "assoc_const", "assoc_type", "primitive", "keyword"}

Package(n, k, mp) == [name |-> n, kind |-> k, module_path |-> mp]

\* the export selections a configuration is drawn from
OptionSet ==
    { Package("pkg", "function", None),
      Package("pkg", "function", Some("pkg::mod_a")),
      Package("pkg", "struct", None),
      Package("pkg", "struct", Some("pkg::mod_b")),
      Package("pkg", "module", None),
      Package("pkg", "bogus", None),
      Package("dep", "function", None) }

Configs == UNION {[1..k -> OptionSet] : k \in 1..MaxOptions}

\* Config.output_path
OutputRoot == <<"out">>

\* str::split("::")
RECURSIVE SplitColons(_)
SplitColons(s) ==
    LET hits == {i \in 1..(Len(s) - 1) : SubSeq(s, i, i + 1) = "::"}
    IN IF hits = {} THEN <<s>>
       ELSE LET n == CHOOSE i \in hits : \A j \in hits : i <= j
            IN <<SubSeq(s, 1, n - 1)>> \o SplitColons(SubSeq(s, n + 2, Len(s)))

\* PathBuf::push on the text of the buffer: an absolute path replaces the
\* buffer, any other is added after a separator
PushStr(buf, p) ==
    IF StartsWith(p, "/") THEN p
    ELSE IF buf = "" THEN p
    ELSE IF Char(buf, Len(buf)) = "/" THEN buf \o p
    ELSE buf \o "/" \o p

\* iter.collect::<PathBuf>(): every segment pushed in turn
RECURSIVE PushAll(_, _)
PushAll(buf, segs) ==
    IF Len(segs) = 0 THEN buf ELSE PushAll(PushStr(buf, Head(segs)), Tail(segs))

\* the positions of the pieces of a path text that are components: an empty
\* piece is none, and "." is one only at the start of a relative path
ComponentAt(ps, abs) ==
    {i \in 1..Len(ps) : ps[i] # "" /\ (ps[i] = "." => (i = 1 /\ ~abs))}

\* the pieces of ps at the positions of S, in order
RECURSIVE Pick(_, _, _)
Pick(ps, S, i) ==
    IF i > Len(ps) THEN <<>>
    ELSE (IF i \in S THEN <<ps[i]>> ELSE <<>>) \o Pick(ps, S, i + 1)

\* Path::components of a path text; the root directory is the component "/"
Components(text) ==
    (IF StartsWith(text, "/") THEN <<"/">> ELSE <<>>)
        \o Pick(SplitSlash(text), ComponentAt(SplitSlash(text), StartsWith(text, "/")), 1)

\* the components of the PathBuf collected from segs
PathBufOf(segs) == Components(PushAll("", segs))

\* Path::starts_with, on components
IsPrefix(p, q) == Len(p) <= Len(q) /\ SubSeq(q, 1, Len(p)) = p

\* lines 113-125: the ids of the index that have a path summary of the
\* selected kind below the selected module path
Candidates(option) ==
    LET crate_ == crates[option.name]
    IN {id \in DOMAIN crate_.index :
          /\ id \in DOMAIN crate_.paths
          /\ crate_.paths[id].kind = option.kind
          /\ (option.module_path.some
                 => IsPrefix(PathBufOf(SplitColons(option.module_path.val)),
                             PathBufOf(crate_.paths[id].path)))}

\* the orders in which a HashMap may yield a set of keys
Orders(S) ==
    {o \in [1..Cardinality(S) -> S] : \A i, j \in 1..Cardinality(S) : o[i] = o[j] => i = j}

\* lines 126-131 for the ids of one selection, in the order given: each
\* item's associated methods, then the item
RECURSIVE CollectIds(_, _, _)
CollectIds(P, pkg, order) ==
    IF Len(order) = 0 THEN OkP(<<>>, P)
    ELSE Then(get(P, ItemId(pkg, Head(order))), LAMBDA item :
         Then(associated_methods(item.pool, item.val), LAMBDA methods :
         Then(CollectIds(methods.pool, pkg, Tail(order)), LAMBDA rest :
         OkP(methods.val \o <<item.val>> \o rest.val, rest.pool))))

\* lines 110-133: every outcome of the collection loop over the selections
RECURSIVE Collect(_, _)
Collect(P, options) ==
    IF Len(options) = 0 THEN {OkP(<<>>, P)}
    ELSE UNION {
           UNION {
             IF ~one.ok THEN {PanicP(one.pool)}
             ELSE {IF rest.ok THEN OkP(one.val \o rest.val, rest.pool)
                   ELSE PanicP(rest.pool) : rest \in Collect(one.pool, Tail(options))}
             : one \in {CollectIds(P, Head(options).name, order)}}
           : order \in Orders(Candidates(Head(options)))}

\* lines 73-101: the build tool documents the package and the kind parses
ValidConfig(c) ==
    \A i \in 1..Len(c) : c[i].name \in DOMAIN World /\ c[i].kind \in ItemKinds

\* the directories create_dir_all makes for a path
Ancestors(p) == {SubSeq(p, 1, k) : k \in 1..Len(p)}

\* files found below the output root before the run
OldFiles ==
    { <<>>,
      [f \in {<<"out", "pkg", "mod_b", "g.md">>, <<"out", "pkg", "mod_a", "Foo.md">>}
          |-> "stale"] }

InitExtract ==
    /\ config \in Configs
    /\ loaded = {config[i].name : i \in 1..Len(config)} \cap DOMAIN World
    /\ EmptyPool
    /\ pc = "start" /\ items = <<>> /\ pos = 0
    /\ files0 \in OldFiles
    /\ files = files0
    /\ dirs = UNION {Ancestors(DropLast(f)) : f \in DOMAIN files0}
    /\ IdlePath

TryFrom ==
    /\ pc = "start" /\ status = "running"
    /\ IF ~ValidConfig(config)
       THEN /\ status' = "failed"
            /\ UNCHANGED <<heap, cached_items, extract_items, items, pos, pc>>
       ELSE \E r \in Collect(Pool, config) :
               /\ heap' = r.pool.heap
               /\ cached_items' = r.pool.cached
               /\ status' = IF r.ok THEN "running" ELSE "panicked"
               /\ items' = IF r.ok THEN r.val ELSE items
               /\ extract_items' = IF r.ok THEN r.val ELSE extract_items
               /\ pc' = IF r.ok THEN "loop" ELSE pc
               /\ pos' = IF r.ok THEN 1 ELSE pos
    /\ UNCHANGED <<loaded, returned, rendered, out, calls, config, dirs, files, files0,
                   from_item, to_item, rel, link, input, result>>

\* lines 51-54: the directory and the file name of an item's page
PageDir(c) == OutputRoot \o path(c)
PageFile(c) == Append(PageDir(c), name(c).val \o ".md")

\* lines 51-56: create_dir_all, then File::create, which creates or truncates
CreateFile ==
    /\ pc = "loop" /\ status = "running" /\ pos <= Len(items)
    /\ LET item == heap[items[pos]]
       IN /\ dirs' = dirs \cup Ancestors(PageDir(item))
          /\ IF name(item).ok
             THEN /\ files' = [f \in DOMAIN files \cup {PageFile(item)} |->
                                 IF f = PageFile(item) THEN "" ELSE files[f]]
                  /\ pc' = "opened"
                  /\ UNCHANGED status
             ELSE /\ status' = "panicked"
                  /\ UNCHANGED <<files, pc>>
    /\ UNCHANGED <<loaded, heap, cached_items, extract_items, returned, rendered, out, calls,
                   config, items, pos, files0, from_item, to_item, rel, link, input, result>>

\* mutant: a failed render is skipped and the loop goes on
ExtractOutcome_skip(ok, k) == [status |-> "running", pc |-> "loop", pos |-> k + 1]

\* lines 50-58: after item k the loop goes on to item k + 1; a panic raised
\* by repr unwinds out of extract and ends the process
ExtractOutcome(ok, k) ==
    IF ok THEN [status |-> "running", pc |-> "loop", pos |-> k + 1]
    ELSE [status |-> "panicked", pc |-> "opened", pos |-> k]

\* line 57: item.repr(item), then write_all of the text
WriteFile ==
    /\ pc = "opened" /\ status = "running"
    /\ \E r \in {repr_CachedItem(Pool, items[pos])},
          f \in {PageFile(heap[items[pos]])} :
       \E o \in {ExtractOutcome(r.ok, pos)} :
          /\ heap' = r.pool.heap
          /\ cached_items' = r.pool.cached
          /\ files' = IF r.ok THEN [files EXCEPT ![f] = r.val] ELSE files
          /\ out' = IF r.ok
                    THEN [op |-> "repr", rc |-> items[pos], ok |-> TRUE, val |-> r.val,
                          file |-> f, pos |-> pos]
                    ELSE [op |-> "repr", rc |-> items[pos], ok |-> FALSE,
                          file |-> f, pos |-> pos]
          /\ status' = o.status /\ pc' = o.pc /\ pos' = o.pos
    /\ UNCHANGED <<loaded, extract_items, returned, rendered, calls, config, items, dirs, files0,
                   from_item, to_item, rel, link, input, result>>

\* lines 53 and 56: create_dir_all returns Err after it made none, some or
\* all but the last of the directories, from the top down; or it made them
\* all and File::create returns Err
CreateFails ==
    /\ pc = "loop" /\ status = "running" /\ pos <= Len(items)
    /\ status' = "failed"
    /\ \E k \in 0..Len(PageDir(heap[items[pos]])) :
          dirs' = dirs \cup Ancestors(SubSeq(PageDir(heap[items[pos]]), 1, k))
    /\ UNCHANGED <<loaded, heap, cached_items, extract_items, returned, rendered, out, calls,
                   pc, config, items, pos, files, files0, from_item, to_item, rel, link, input, result>>

\* line 57: write_all returns Err after the text was rendered; a prefix of
\* the text, of any length short of the whole, has reached the file
WriteFails ==
    /\ pc = "opened" /\ status = "running"
    /\ \E r \in {repr_CachedItem(Pool, items[pos])},
          f \in {PageFile(heap[items[pos]])} :
          /\ r.ok
          /\ heap' = r.pool.heap
          /\ cached_items' = r.pool.cached
          /\ \E k \in 0..(Len(r.val) - 1) :
                files' = [files EXCEPT ![f] = SubSeq(r.val, 1, k)]
    /\ status' = "failed"
    /\ UNCHANGED <<loaded, extract_items, returned, rendered, out, calls, pc, config, items, pos,
                   dirs, files0, from_item, to_item, rel, link, input, result>>

\* line 60: Ok(())
Finish ==
    /\ pc = "loop" /\ status = "running" /\ pos = Len(items) + 1
    /\ pc' = "done"
    /\ UNCHANGED <<loaded, heap, cached_items, extract_items, returned, rendered, status, out,
                   calls, config, items, pos, dirs, files, files0,
                   from_item, to_item, rel, link, input, result>>

NextExtract ==
    \/ TryFrom
    \/ CreateFile
    \/ WriteFile
    \/ CreateFails
    \/ WriteFails
    \/ Finish

SpecExtract == InitExtract /\ [][NextExtract]_vars

(***************************************************************************)
(* Properties of the extraction driver.                                    *)
(***************************************************************************)
\* the page file of the item at position i of the extraction list
TargetOf(i) == PageFile(heap[items[i]])

\* file f is as it was found before the run: absent, or with its old content
Untouched(f) ==
    /\ f \in DOMAIN files <=> f \in DOMAIN files0
    /\ f \in DOMAIN files0 => files[f] = files0[f]

\* C5: when rendering an item fails, the file at the item's target path has
\* been neither created nor modified by this item (an earlier item of the
\* list with the same target may have written it).
C5_RenderBeforeCreate ==
    (out.op = "repr" /\ ~out.ok /\ \A i \in 1..(out.pos - 1) : TargetOf(i) # out.file)
        => Untouched(out.file)

\* C6: a failure raised while rendering the k-th item ends the run at that
\* item: the process has panicked at position k, the files of the items
\* after k are as they were found (unless an item up to k has the same
\* target), and from then on nothing is rendered, created or written.
C6_AbortAtFailure ==
    /\ []((out.op = "repr" /\ ~out.ok)
            => /\ status = "panicked" /\ pc = "opened" /\ pos = out.pos
               /\ \A j \in (out.pos + 1)..Len(items) :
                     (\A i \in 1..out.pos : TargetOf(i) # TargetOf(j))
                        => Untouched(TargetOf(j)))
    /\ [][(out.op = "repr" /\ ~out.ok)
            => UNCHANGED <<out, files, dirs, heap, cached_items, pos>>]_vars

C6_Witness ==
    /\ out.op = "repr" /\ ~out.ok /\ out.pos < Len(items)
    /\ \E j \in (out.pos + 1)..Len(items) :
          \A i \in 1..out.pos : TargetOf(i) # TargetOf(j)

\* the positions of the extraction list that hold a struct with an index entry
StructsAt ==
    {i \in 1..Len(items) : heap[items[i]].item.some /\ kind(heap[items[i]]) = "struct"}

\* the methods of the struct at position i that have no path entry
PathlessMethods(i) ==
    UNION {{ms[k] : k \in {n \in 1..Len(ms) : ~heap[ms[n]].item_summary.some}} :
              ms \in {associated_methods(Pool, items[i]).val}}

\* C9: for every struct of the extraction list, each associated method that
\* has no path entry is in the list before the struct, and its page file is
\* <output root>/<struct's module directories>/<struct name>/<method name>.md,
\* one directory below the directory of the struct's page; a method page
\* that was just written is in that file.
C9_MethodPageNested ==
    /\ \A i \in StructsAt : \A m \in PathlessMethods(i) :
          /\ \E j \in 1..(i - 1) : items[j] = m
          /\ PageFile(heap[m])
                = OutputRoot \o DropLast(heap[items[i]].item_summary.val.path)
                  \o <<name(heap[items[i]]).val, name(heap[m]).val \o ".md">>
          /\ DropLast(PageFile(heap[m]))
                = Append(DropLast(TargetOf(i)), name(heap[items[i]]).val)
          /\ TargetOf(i)
                = OutputRoot \o DropLast(heap[items[i]].item_summary.val.path)
                  \o <<name(heap[items[i]]).val \o ".md">>
    /\ (out.op = "repr" /\ out.ok /\ pc = "loop" /\ pos = out.pos + 1
        /\ ~heap[out.rc].item_summary.some)
          => /\ \E i \in StructsAt : out.rc \in PathlessMethods(i)
             /\ out.file = PageFile(heap[out.rc])
             /\ out.file \in DOMAIN files /\ files[out.file] = out.val

C9_Witness ==
    /\ out.op = "repr" /\ out.ok /\ pc = "loop" /\ pos = out.pos + 1
    /\ ~heap[out.rc].item_summary.some
    /\ \E i \in StructsAt : out.rc \in PathlessMethods(i)
    /\ out.file \in DOMAIN files /\ files[out.file] = out.val

(***************************************************************************)
(* The type renderer on its own: Repr for Type applied, with a function    *)
(* item of the package as root, to every type expression of at most        *)
(* MaxTypeDepth levels of nesting.                                         *)
(***************************************************************************)
MaxTypeDepth == 2

\* the type expressions without a nested type
LeafTypes ==
    {Prim("u8"), Generic("T"), Infer, QualifiedPath("Item"),
     Resolved("Bar", "Bar", None), Resolved("Bar", "Bar", Some(NoArgs))}

\* the type expressions that hold t directly
Wrap(t) ==
    {Ref(None, FALSE, t), Ref(Some("'a"), TRUE, t),
     Tuple(<<Prim("u8"), t>>), Tuple(<<t, Generic("T")>>),
     Slice(t), Array(t, "4"), RawPointer(t),
     Resolved("Ext", "Thing", Some(AngleBracketed(<<ArgLifetime("'a"), ArgType(t)>>, <<>>))),
     Resolved("Bar", "Bar",
              Some(AngleBracketed(<<>>, <<TypeBinding("Out", NoArgs, EqualityType(t))>>))),
     ImplTrait(<<TraitBound(PathTo("Bar", "Bar", Some(AngleBracketed(<<ArgType(t)>>, <<>>))),
                            <<>>, "None")>>),
     DynTrait(<<PolyTrait(PathTo("Bar", "Bar", Some(AngleBracketed(<<ArgType(t)>>, <<>>))),
                          <<>>)>>, None)}

RECURSIVE TypesUpTo(_)
TypesUpTo(d) ==
    IF d = 0 THEN LeafTypes
    ELSE TypesUpTo(d - 1) \cup UNION {Wrap(t) : t \in TypesUpTo(d - 1)}

\* the pool after the root item, function f of the package, was looked up
RootPool == get([heap |-> <<>>, cached |-> <<>>], ItemId("pkg", "f")).pool

InitType ==
    /\ loaded = {"pkg"}
    /\ heap = RootPool.heap /\ cached_items = RootPool.cached
    /\ extract_items = <<>> /\ returned = {} /\ rendered = {}
    /\ status = "running" /\ calls = 0
    /\ out = [op |-> "none"]
    /\ config = <<>> /\ items = <<>> /\ pos = 0
    /\ dirs = {} /\ files = <<>> /\ files0 = <<>>
    /\ from_item = [path |-> <<>>, name |-> ""]
    /\ to_item = [path |-> <<>>, name |-> ""]
    /\ rel = <<>> /\ link = ""
    /\ pc = "input"
    /\ input \in TypesUpTo(MaxTypeDepth)
    /\ result = <<>>

\* tpe.repr(root), root being the item of handle 1
ReprType ==
    /\ pc = "input" /\ status = "running"
    /\ \E r \in {repr_Type(Pool, heap[1], input)} :
          /\ heap' = r.pool.heap
          /\ cached_items' = r.pool.cached
          /\ status' = IF r.ok THEN "running" ELSE "panicked"
          /\ result' = IF r.ok THEN Ok(r.val) ELSE Panic
    /\ pc' = "rendered"
    /\ UNCHANGED <<loaded, extract_items, returned, rendered, out, calls, config, items, pos,
                   dirs, files, files0, from_item, to_item, rel, link, input>>

NextType == ReprType

SpecType == InitType /\ [][NextType]_vars

\* the variants Repr for Type renders
SupportedTags ==
    {"Primitive", "ResolvedPath", "DynTrait", "Generic", "BorrowedRef", "Tuple",
     "Slice", "Array", "ImplTrait"}

Range(s) == {s[i] : i \in 1..Len(s)}

\* the types among the generic arguments and bindings of a path
PathArgTypes(p) ==
    IF p.args.some /\ p.args.val.tag = "AngleBracketed"
    THEN {p.args.val.args[i].val :
             i \in {j \in 1..Len(p.args.val.args) : p.args.val.args[j].tag = "Type"}}
         \cup {p.args.val.bindings[i].binding.term.val :
                  i \in {j \in 1..Len(p.args.val.bindings) :
                            /\ p.args.val.bindings[j].binding.tag = "Equality"
                            /\ p.args.val.bindings[j].binding.term.tag = "Type"}}
    ELSE {}

\* the paths a type names directly
PathsOf(t) ==
    CASE t.tag = "ResolvedPath" -> {t.path}
      [] t.tag = "ImplTrait" ->
            {b.trait_ : b \in {x \in Range(t.bounds) : x.tag = "TraitBound"}}
      [] t.tag = "DynTrait" -> {p.trait_ : p \in Range(t.traits)}
      [] OTHER -> {}

\* the types nested directly in a type the renderer descends into
Children(t) ==
    CASE t.tag \in {"BorrowedRef", "Slice", "Array"} -> {t.type_}
      [] t.tag = "Tuple" -> Range(t.elems)
      [] OTHER -> UNION {PathArgTypes(p) : p \in PathsOf(t)}

\* the recursion of the renderer reaches a variant outside the rendered set
RECURSIVE HasUnsupported(_)
HasUnsupported(t) ==
    t.tag \notin SupportedTags \/ \E c \in Children(t) : HasUnsupported(c)

\* C11: rendering a type in which the recursion reaches a variant outside
\* the rendered set, at whatever depth, fails and returns no text.
C11_UnsupportedFails ==
    (pc = "rendered" /\ HasUnsupported(input)) => (~result.ok /\ status = "panicked")

\* the unsupported variant is two levels down, inside a tuple inside a slice
C11_Witness ==
    /\ pc = "rendered" /\ ~result.ok
    /\ input.tag = "Slice" /\ input.type_.tag = "Tuple"
    /\ input.type_.elems[2].tag = "Infer"

\* the generic-argument list of a path is absent or empty
EmptyArgs(p) ==
    \/ ~p.args.some
    \/ /\ p.args.val.tag = "AngleBracketed"
       /\ Len(p.args.val.args) = 0 /\ Len(p.args.val.bindings) = 0

\* every path in the type has an absent or empty generic-argument list
RECURSIVE AllArgsEmpty(_)
AllArgsEmpty(t) ==
    /\ \A p \in PathsOf(t) : EmptyArgs(p)
    /\ \A c \in Children(t) : AllArgsEmpty(c)

\* C12: a named-path type with an absent or empty generic-argument list
\* renders as the link alone, and a type all of whose paths are such has no
\* angle bracket, escaped or not, after any link.
C12_NoEmptyBrackets ==
    /\ (pc = "rendered" /\ result.ok /\ input.tag = "ResolvedPath"
        /\ EmptyArgs(input.path))
          => result.val
                = "<a href=\""
                  \o external_link(heap[cached_items[ItemId("pkg", input.path.id)]]).val
                  \o "\">" \o input.path.name \o "</a>"
    /\ (pc = "rendered" /\ result.ok /\ AllArgsEmpty(input))
          => /\ ~Contains(result.val, "&lt;") /\ ~Contains(result.val, "&gt;")
             /\ ~Contains(result.val, "</a><") /\ ~Contains(result.val, "</a>>")

\* an empty angle-bracketed list, at the top and inside a tuple
C12_Witness ==
    /\ pc = "rendered" /\ result.ok
    /\ input.tag = "Tuple" /\ input.elems[1].tag = "ResolvedPath"
    /\ input.elems[1].path.args.some /\ EmptyArgs(input.elems[1].path)

(***************************************************************************)
(* Properties of rendering over the free-form pool.                        *)
(***************************************************************************)
\* c, an item without a path summary, is stored with the path that
\* associated_methods gives the methods of a struct it belongs to
MethodEntry(c) ==
    \E s \in DOMAIN crates[c.id.pkg].index \cap DOMAIN crates[c.id.pkg].paths :
        /\ crates[c.id.pkg].index[s].inner.tag = "Struct"
        /\ crates[c.id.pkg].index[s].name.some
        /\ \E k \in 1..Len(InherentItems(crates[c.id.pkg],
                                         crates[c.id.pkg].index[s].inner.impls)) :
              InherentItems(crates[c.id.pkg],
                            crates[c.id.pkg].index[s].inner.impls)[k] = c.id.id
        /\ c.path = Append(DropLast(crates[c.id.pkg].paths[s].path),
                           crates[c.id.pkg].index[s].name.val)

\* the table holds nothing but what lookups can put there: items with a
\* path summary, and methods under the path of their struct
TableFromLookups ==
    \A i \in 1..Len(heap) : heap[i].item_summary.some \/ MethodEntry(heap[i])

\* C13: two renders of the same item over one pool give the same text,
\* whatever the table held at each of them and whatever was looked up or
\* rendered in between; and an item that was rendered once is rendered
\* again without failure.
C13_RenderDeterministic ==
    /\ [](\A a \in rendered, b \in rendered : a.rc = b.rc => a.val = b.val)
    /\ [][(out'.op = "repr" /\ \E a \in rendered : a.rc = out'.rc) => out'.ok]_vars

\* an item rendered with a table that holds only the item, and again after
\* other operations made the table grow; the table holds an item that no
\* lookup stores (a method under a path that is not its struct's)
C13_Witness ==
    /\ out.op = "repr" /\ out.ok /\ ~TableFromLookups
    /\ \E a \in rendered, b \in rendered :
          /\ a.rc = out.rc /\ b.rc = out.rc /\ b.at = calls
          /\ a.before = 1 /\ a.after > 1
          /\ b.at >= a.at + 2 /\ b.before > a.after

(***************************************************************************)
(* utils.rs: hide_code_block_lines applied to generated documentation      *)
(* texts of up to MaxLines lines.                                          *)
(***************************************************************************)
MaxLines == 5       \* most lines of a generated documentation text

DocLines ==
    {Fence, Fence \o "rust", Fence \o "python", "# hidden", "#[attr]", "visible", "",
     Fence \o ""}

DocsUpTo(n) ==
    {JoinWith(ls, "\n") : ls \in UNION {[1..k -> DocLines] : k \in 0..n}}

InitDocs ==
    /\ loaded = {} /\ heap = <<>> /\ cached_items = <<>>
    /\ extract_items = <<>> /\ returned = {} /\ rendered = {}
    /\ status = "running" /\ calls = 0
    /\ out = [op |-> "none"]
    /\ config = <<>> /\ items = <<>> /\ pos = 0
    /\ dirs = {} /\ files = <<>> /\ files0 = <<>>
    /\ from_item = [path |-> <<>>, name |-> ""]
    /\ to_item = [path |-> <<>>, name |-> ""]
    /\ rel = <<>> /\ link = ""
    /\ pc = "input"
    /\ input \in DocsUpTo(MaxLines)
    /\ result = <<>>

\* hide_code_block_lines(docs)
HideLines ==
    /\ pc = "input"
    /\ result' = Ok(hide_code_block_lines(input))
    /\ pc' = "filtered"
    /\ UNCHANGED <<loaded, heap, cached_items, extract_items, returned, rendered, status, out,
                   calls, config, items, pos, dirs, files, files0, from_item, to_item,
                   rel, link, input>>

NextDocs == HideLines

SpecDocs == InitDocs /\ [][NextDocs]_vars

\* The fenced code blocks of a Markdown text.  A fence line opens a block
\* when the text is outside every block; the block runs to the next line
\* that is a bare fence, or to the end of the text.
Unlabeled(l) ==
    StartsWith(l, Fence) /\ AllSpace(SubSeq(l, Len(Fence) + 1, Len(l)))

RustLabelled(l) ==
    /\ StartsWith(l, Fence \o "rust")
    /\ (Len(l) = Len(Fence) + 4 \/ SpaceLen(l, Len(Fence) + 5) > 0)

StepFence(s, l) ==
    IF s = "outside"
    THEN IF Unlabeled(l) \/ RustLabelled(l) THEN "rust"
         ELSE IF StartsWith(l, Fence) THEN "other"
         ELSE "outside"
    ELSE IF Unlabeled(l) THEN "outside" ELSE s

\* where the text stands after its first n lines
RECURSIVE FenceState(_, _)
FenceState(ls, n) ==
    IF n = 0 THEN "outside" ELSE StepFence(FenceState(ls, n - 1), ls[n])

\* line i lies strictly inside a block of kind k: it is neither the opening
\* nor the closing fence
InBlock(ls, i, k) == FenceState(ls, i - 1) = k /\ FenceState(ls, i) = k

HashLine(l) == StartsWith(l, "#") /\ ~StartsWith(l, "#[")

\* a is b with some elements left out
RECURSIVE IsSubseq(_, _)
IsSubseq(a, b) ==
    IF Len(a) = 0 THEN TRUE
    ELSE IF Len(b) = 0 THEN FALSE
    ELSE IF Head(a) = Head(b) THEN IsSubseq(Tail(a), Tail(b))
    ELSE IsSubseq(a, Tail(b))

\* the lines of ls at the positions of S, in order
RECURSIVE LinesAt(_, _, _)
LinesAt(ls, S, i) ==
    IF i > Len(ls) THEN <<>>
    ELSE (IF i \in S THEN <<ls[i]>> ELSE <<>>) \o LinesAt(ls, S, i + 1)

\* C14: of the lines strictly inside a block opened by an unlabeled or a
\* rust-labelled fence, a line that begins with # and not with #[ is not in
\* the output (when the text has it nowhere else), and a line that begins
\* with #[ is in the output unchanged.
C14_HashLinesHidden ==
    pc = "filtered"
      => \A ls \in {lines(input)}, os \in {lines(result.val)} :
            \A i \in 1..Len(ls) :
               InBlock(ls, i, "rust")
                 => /\ (/\ HashLine(ls[i])
                        /\ \A j \in 1..Len(ls) : ls[j] = ls[i] => InBlock(ls, j, "rust"))
                          => \A k \in 1..Len(os) : os[k] # ls[i]
                    /\ StartsWith(ls[i], "#[") => \E k \in 1..Len(os) : os[k] = ls[i]

\* C15: the lines inside a block opened by an unlabeled or a rust-labelled
\* fence that do not begin with # are all in the output, unchanged and in
\* their order.
C15_OtherLinesKept ==
    pc = "filtered"
      => \A ls \in {lines(input)} :
            IsSubseq(LinesAt(ls, {i \in 1..Len(ls) : /\ InBlock(ls, i, "rust")
                                                     /\ ~StartsWith(ls[i], "#")}, 1),
                     lines(result.val))

\* C16: a text whose blocks all open with a fence that carries another
\* label comes out as it went in: opening fences, body lines, closing fences
\* and the lines after them.
C16_OtherBlocksVerbatim ==
    (pc = "filtered"
       /\ \A i \in 1..Len(lines(input)) : FenceState(lines(input), i) # "rust")
      => result.val = JoinWith(lines(input), "\n")

(***************************************************************************)
(* Properties of the memoization table over the free-form pool.            *)
(***************************************************************************)
\* C17: every item stored in the pool has a name that name() resolves, and
\* an identifier without one is refused when the item is constructed.
C17_StoredResolvable ==
    \A i \in 1..Len(heap) : name(heap[i]).ok

(***************************************************************************)
(* The resolver against the minimal relative path.                         *)
(***************************************************************************)
\* length of the longest common prefix of a and b
RECURSIVE CommonPrefix(_, _)
CommonPrefix(a, b) ==
    IF Len(a) = 0 \/ Len(b) = 0 THEN 0
    ELSE IF Head(a) # Head(b) THEN 0
    ELSE 1 + CommonPrefix(Tail(a), Tail(b))

\* the minimal relative path from directory a to directory b
MinimalRelative(a, b) ==
    [i \in 1..(Len(a) - CommonPrefix(a, b)) |-> ".."]
        \o SubSeq(b, CommonPrefix(a, b) + 1, Len(b))

\* C18: relative_to(from, to) is the minimal relative path: one ".." for
\* each segment of from after the longest common prefix, then the segments
\* of to after that prefix.
C18_MinimalRelativePath ==
    pc \in {"relative", "linked"}
      => rel = MinimalRelative(from_item.path, to_item.path)

(***************************************************************************)
(* The frame of a render over the free-form pool.                          *)
(***************************************************************************)
\* C19: a render leaves the memoization table as it found it: no step that
\* renders an item adds an entry.
C19_RenderLeavesTable ==
    [][(calls' = calls + 1 /\ out'.op = "repr")
          => (cached_items' = cached_items /\ heap' = heap)]_vars

(***************************************************************************)
(* The methods of a struct over the free-form pool.                        *)
(***************************************************************************)
\* impl block id of crate c is in the index and has no trait
Inherent(c, id) ==
    /\ id \in DOMAIN c.index
    /\ c.index[id].inner.tag = "Impl"
    /\ ~c.index[id].inner.trait_.some

\* the items of the inherent impl blocks among the first n of impls, in impl
\* order then item order
RECURSIVE MethodsOf(_, _, _)
MethodsOf(c, impls, n) ==
    IF n = 0 THEN <<>>
    ELSE MethodsOf(c, impls, n - 1)
            \o (IF Inherent(c, impls[n]) THEN c.index[impls[n]].inner.items ELSE <<>>)

\* C20: associated_methods of a struct returns the items of its inherent
\* impl blocks that are in the index, in impl order then item order, and no
\* item of a trait impl; for an item of another kind, and for an item
\* without item data, it returns the empty list.
C20_InherentMethods ==
    out.op = "associated_methods"
      => \A self \in {heap[out.rc]} :
            /\ out.ok
            /\ (self.item.some /\ self.item.val.inner.tag = "Struct")
                 => \A ms \in {MethodsOf(crates[self.id.pkg], self.item.val.inner.impls,
                                         Len(self.item.val.inner.impls))} :
                       /\ Len(out.val) = Len(ms)
                       /\ \A i \in 1..Len(ms) :
                             heap[out.val[i]].id = ItemId(self.id.pkg, ms[i])
            /\ ~(self.item.some /\ self.item.val.inner.tag = "Struct") => out.val = <<>>

\* the methods of Foo, a struct with an inherent impl, a trait impl and an
\* impl block that is not in the index
C20_Witness ==
    /\ out.op = "associated_methods" /\ out.ok
    /\ heap[out.rc].id = ItemId("pkg", "Foo")
    /\ Len(out.val) = 2
    /\ heap[out.val[1]].id.id = "new" /\ heap[out.val[2]].id.id = "run"

(***************************************************************************)
(* Properties of Repr for TypeBinding and for Type::Slice on the           *)
(* generated types.                                                        *)
(***************************************************************************)
\* the input is a resolved path whose argument list holds one binding, an
\* equality constraint with a type value, and nothing else
OneEqualityBinding ==
    /\ input.tag = "ResolvedPath" /\ input.path.args.some
    /\ input.path.args.val.tag = "AngleBracketed"
    /\ Len(input.path.args.val.args) = 0
    /\ Len(input.path.args.val.bindings) = 1
    /\ input.path.args.val.bindings[1].binding.tag = "Equality"
    /\ input.path.args.val.bindings[1].binding.term.tag = "Type"

\* C21: an equality-constraint binding with name n, arguments a and type
\* value v renders as n, the rendering of a, the character =, and the
\* rendering of v.
C21_BindingWithEquals ==
    (pc = "rendered" /\ result.ok /\ OneEqualityBinding)
      => \A b \in {input.path.args.val.bindings[1]} :
            result.val
              = "<a href=\""
                \o external_link(heap[cached_items[ItemId("pkg", input.path.id)]]).val
                \o "\">" \o input.path.name \o "</a>"
                \o "&lt;" \o b.name \o repr_GenericArgs(Pool, heap[1], b.args).val
                \o "=" \o repr_Type(Pool, heap[1], b.binding.term.val).val \o "&gt;"

(***************************************************************************)
(* repr.rs: the second set of renderers (impl Repr for Type, TypeBinding,  *)
(* GenericArgs, Path, GenericBound), with the same conventions.            *)
(***************************************************************************)
RECURSIVE repr_rs_Type(_, _, _)
RECURSIVE repr_rs_Types(_, _, _)
RECURSIVE repr_rs_Path(_, _, _)
RECURSIVE repr_rs_PolyTraits(_, _, _)
RECURSIVE repr_rs_GenericArgs(_, _, _)
RECURSIVE repr_rs_GenericArgList(_, _, _)
RECURSIVE repr_rs_TypeBinding(_, _, _)
RECURSIVE repr_rs_TypeBindings(_, _, _)
RECURSIVE repr_rs_GenericBound(_, _, _)
RECURSIVE repr_rs_GenericBounds(_, _, _)

\* types.iter().map(|type_| type_.repr(root)): the texts, left to right
repr_rs_Types(P, root, ts) ==
    IF Len(ts) = 0 THEN OkP(<<>>, P)
    ELSE Then(repr_rs_Type(P, root, Head(ts)), LAMBDA r :
         Then(repr_rs_Types(r.pool, root, Tail(ts)), LAMBDA rest :
         OkP(<<r.val>> \o rest.val, rest.pool)))

\* impl Repr for rustdoc_types::Path: the link text is item.name(), which
\* external_link has already resolved
repr_rs_Path(P, root, p) ==
    Then(get(P, ItemId(root.id.pkg, p.id)), LAMBDA item :
    ThenV(external_link(item.pool.heap[item.val]), item.pool, LAMBDA href :
    Then(IF p.args.some
         THEN repr_rs_GenericArgs(item.pool, root, p.args.val)
         ELSE OkP("", item.pool), LAMBDA args :
    OkP("<a href=\"" \o href.val \o "\">" \o name(item.pool.heap[item.val]).val
        \o "</a>" \o args.val, args.pool))))

\* dyn_trait.traits.iter().map(...) of Type::DynTrait
repr_rs_PolyTraits(P, root, ts) ==
    IF Len(ts) = 0 THEN OkP(<<>>, P)
    ELSE IF Len(Head(ts).generic_params) # 0 THEN PanicP(P)
    ELSE Then(repr_rs_Path(P, root, Head(ts).trait_), LAMBDA r :
         Then(repr_rs_PolyTraits(r.pool, root, Tail(ts)), LAMBDA rest :
         OkP(<<r.val>> \o rest.val, rest.pool)))

\* impl Repr for Type
repr_rs_Type(P, root, t) ==
    CASE t.tag = "Primitive" ->
            OkP("<a href=\"https://doc.rust-lang.org/std/primitive." \o t.name
                \o ".html\">" \o t.name \o "</a>", P)
      [] t.tag = "ResolvedPath" -> repr_rs_Path(P, root, t.path)
      [] t.tag = "DynTrait" ->
            Then(repr_rs_PolyTraits(P, root, t.traits), LAMBDA r :
            OkP("dyn " \o JoinWith(r.val \o (IF t.lifetime.some
                                             THEN <<t.lifetime.val>>
                                             ELSE <<>>), " + "),
                r.pool))
      [] t.tag = "Generic" -> OkP(t.name, P)
      [] t.tag = "BorrowedRef" ->
            Then(repr_rs_Type(P, root, t.type_), LAMBDA r :
            OkP("&" \o (IF t.lifetime.some THEN t.lifetime.val \o " " ELSE "")
                \o (IF t.mutable THEN "mut " ELSE "") \o r.val, r.pool))
      [] t.tag = "Tuple" ->
            Then(repr_rs_Types(P, root, t.elems), LAMBDA r :
            OkP("(" \o JoinWith(r.val, ", ") \o ")", r.pool))
      [] t.tag = "Slice" ->
            Then(repr_rs_Type(P, root, t.type_), LAMBDA r :
            OkP("&[" \o r.val \o "]", r.pool))
      [] t.tag = "Array" ->
            Then(repr_rs_Type(P, root, t.type_), LAMBDA r :
            OkP("[" \o r.val \o ": " \o t.len \o "]", r.pool))
      [] t.tag = "ImplTrait" ->
            Then(repr_rs_GenericBounds(P, root, t.bounds), LAMBDA r :
            OkP("impl " \o JoinWith(r.val, " + "), r.pool))
      [] OTHER -> PanicP(P)

\* impl Repr for TypeBinding
repr_rs_TypeBinding(P, root, b) ==
    Then(repr_rs_GenericArgs(P, root, b.args), LAMBDA args :
    IF b.binding.tag = "Equality" /\ b.binding.term.tag = "Type"
    THEN Then(repr_rs_Type(args.pool, root, b.binding.term.val), LAMBDA v :
         OkP(b.name \o args.val \o v.val, v.pool))
    ELSE PanicP(args.pool))

repr_rs_TypeBindings(P, root, bs) ==
    IF Len(bs) = 0 THEN OkP(<<>>, P)
    ELSE Then(repr_rs_TypeBinding(P, root, Head(bs)), LAMBDA r :
         Then(repr_rs_TypeBindings(r.pool, root, Tail(bs)), LAMBDA rest :
         OkP(<<r.val>> \o rest.val, rest.pool)))

\* args.iter().map(|arg| match arg {...}) of GenericArgs::AngleBracketed
repr_rs_GenericArgList(P, root, as) ==
    IF Len(as) = 0 THEN OkP(<<>>, P)
    ELSE Then(CASE Head(as).tag = "Lifetime" -> OkP(Head(as).val, P)
                [] Head(as).tag = "Type" -> repr_rs_Type(P, root, Head(as).val)
                [] OTHER -> PanicP(P), LAMBDA r :
         Then(repr_rs_GenericArgList(r.pool, root, Tail(as)), LAMBDA rest :
         OkP(<<r.val>> \o rest.val, rest.pool)))

\* impl Repr for GenericArgs
repr_rs_GenericArgs(P, root, ga) ==
    IF ga.tag # "AngleBracketed" THEN PanicP(P)
    ELSE IF Len(ga.args) = 0 /\ Len(ga.bindings) = 0 THEN OkP("", P)
    ELSE Then(repr_rs_GenericArgList(P, root, ga.args), LAMBDA as :
         Then(repr_rs_TypeBindings(as.pool, root, ga.bindings), LAMBDA bs :
         OkP("&lt;" \o JoinWith(as.val \o bs.val, ", ") \o "&gt;", bs.pool)))

\* impl Repr for GenericBound
repr_rs_GenericBound(P, root, b) ==
    IF b.tag = "Outlives" THEN OkP(b.val, P)
    ELSE IF Len(b.generic_params) # 0 \/ b.modifier = "MaybeConst" THEN PanicP(P)
    ELSE Then(repr_rs_Path(P, root, b.trait_), LAMBDA r :
         OkP((IF b.modifier = "Maybe" THEN "?" ELSE "") \o r.val, r.pool))

repr_rs_GenericBounds(P, root, bs) ==
    IF Len(bs) = 0 THEN OkP(<<>>, P)
    ELSE Then(repr_rs_GenericBound(P, root, Head(bs)), LAMBDA r :
         Then(repr_rs_GenericBounds(r.pool, root, Tail(bs)), LAMBDA rest :
         OkP(<<r.val>> \o rest.val, rest.pool)))

(***************************************************************************)
(* Both renderers applied to the generated types.                          *)
(***************************************************************************)
\* type_.repr(root) of repr.rs, root being the item of handle 1
ReprTypeRs ==
    /\ pc = "input" /\ status = "running"
    /\ \E r \in {repr_rs_Type(Pool, heap[1], input)} :
          /\ heap' = r.pool.heap
          /\ cached_items' = r.pool.cached
          /\ status' = IF r.ok THEN "running" ELSE "panicked"
          /\ result' = IF r.ok THEN Ok(r.val) ELSE Panic
    /\ pc' = "rendered_rs"
    /\ UNCHANGED <<loaded, extract_items, returned, rendered, out, calls, config, items, pos,
                   dirs, files, files0, from_item, to_item, rel, link, input>>

NextRenderers == ReprType \/ ReprTypeRs

SpecRenderers == InitType /\ [][NextRenderers]_vars

\* C22: in both renderers a slice of T renders as "[", the rendering of T,
\* "]", and nothing else.
C22_SliceInBrackets ==
    /\ (pc = "rendered" /\ result.ok /\ input.tag = "Slice")
          => result.val = "[" \o repr_Type(Pool, heap[1], input.type_).val \o "]"
    /\ (pc = "rendered_rs" /\ result.ok /\ input.tag = "Slice")
          => result.val = "[" \o repr_rs_Type(Pool, heap[1], input.type_).val \o "]"

(***************************************************************************)
(* The path of an item stored by insert_with_path, over the free-form      *)
(* pool.                                                                   *)
(***************************************************************************)
\* C23: insert_with_path returns the CachedItem already in the table and
\* ignores the supplied path when the id is cached; otherwise the stored
\* path is the summary path without its last segment when the id has a path
\* summary, and the supplied path only when it has none.
C23_SuppliedPathLast ==
    [][(calls' = calls + 1 /\ out'.op = "insert_with_path" /\ out'.ok)
         => IF out'.id \in DOMAIN cached_items
            THEN /\ out'.val = cached_items[out'.id]
                 /\ heap' = heap /\ cached_items' = cached_items
            ELSE /\ out'.val = Len(heap) + 1
                 /\ heap'[out'.val].path
                      = IF out'.id.id \in DOMAIN crates[out'.id.pkg].paths
                        THEN DropLast(crates[out'.id.pkg].paths[out'.id.id].path)
                        ELSE out'.path]_vars

\* a method without a path summary, cached by associated_methods under its
\* struct's path and then inserted again with another path
C23_Witness ==
    /\ out.op = "insert_with_path" /\ out.ok
    /\ ~heap[out.val].item_summary.some
    /\ out.val < Len(heap)
    /\ out.path # heap[out.val].path

(***************************************************************************)
(* Lookups of items without a path summary, over the free-form pool.       *)
(***************************************************************************)
\* the loaded packages hold no path summary for id
NoSummary(id) ==
    id.pkg \notin DOMAIN crates \/ id.id \notin DOMAIN crates[id.pkg].paths

\* C24: get of an id without a path summary succeeds exactly when the id is
\* in the table, where only insert_with_path puts such an id (called directly,
\* by associated_methods or by the render of a struct), never get; a get
\* that fails ends the process and leaves the table as it was.
C24_PathlessGet ==
    /\ [][(calls' = calls + 1 /\ out'.op = "get" /\ NoSummary(out'.id))
            => /\ out'.ok <=> out'.id \in DOMAIN cached_items
               /\ ~out'.ok => /\ status' = "panicked"
                              /\ heap' = heap /\ cached_items' = cached_items]_vars
    /\ [][\A id \in DOMAIN cached_items' \ DOMAIN cached_items :
            NoSummary(id)
              => out'.op \in {"insert_with_path", "associated_methods", "repr"}]_vars

\* a method without a path summary, looked up after its struct's methods
\* were inserted
C24_Witness ==
    /\ out.op = "get" /\ out.ok
    /\ NoSummary(out.id)
    /\ heap[out.val].path = <<"pkg", "mod_a", "Foo">>

(***************************************************************************)
(* The links of a struct page against the pages the driver writes.         *)
(***************************************************************************)
\* position of the first occurrence of sub in s at or after i, or 0
RECURSIVE Find(_, _, _)
Find(s, sub, i) ==
    IF i + Len(sub) - 1 > Len(s) THEN 0
    ELSE IF SubSeq(s, i, i + Len(sub) - 1) = sub THEN i
    ELSE Find(s, sub, i + 1)

\* the target of the first Markdown link [text](target) of a table row
LinkTarget(row) ==
    SubSeq(row, Find(row, "](", 1) + 2, Find(row, ")", Find(row, "](", 1)) - 1)

\* the rows of the Methods table of a page: the lines after the table head
TableRows(page) ==
    SubSeq(SplitNl(page), Find(SplitNl(page), <<"| --- | --- |">>, 1) + 1,
           Len(SplitNl(page)))

\* a struct page has just been written
StructWritten ==
    /\ out.op = "repr" /\ out.ok /\ pc = "loop" /\ pos = out.pos + 1
    /\ out.pos \in StructsAt

\* C25: in the page written for a struct, the link of the row of each
\* method that has no path entry, resolved against the directory of the
\* struct's page, is the file that holds the method's page.
C25_MethodLinkHitsPage ==
    StructWritten
      => \A ms \in {associated_methods(Pool, out.rc).val} :
            \A k \in 1..Len(ms) :
               ~heap[ms[k]].item_summary.some
                 => /\ Len(TableRows(out.val)) = Len(ms)
                    /\ Resolve(DropLast(out.file), SplitSlash(LinkTarget(TableRows(out.val)[k])))
                          = PageFile(heap[ms[k]])
                    /\ PageFile(heap[ms[k]]) \in DOMAIN files
                    /\ \E j \in 1..(out.pos - 1) : items[j] = ms[k]

\* the page of Foo, whose methods new and run have no path entry
C25_Witness ==
    /\ StructWritten
    /\ Len(associated_methods(Pool, out.rc).val) = 2
    /\ LinkTarget(TableRows(out.val)[2]) = "Foo/run.md"
    /\ <<"out", "pkg", "mod_a", "Foo", "run.md">> \in DOMAIN files

(***************************************************************************)
(* The states of the line scanner of hide_code_block_lines.                *)
(***************************************************************************)
\* the scanner after the first n lines of ls
Scanned(ls, n) ==
    ScanLines([stat |-> "None", filtered_docs |-> <<>>], SubSeq(ls, 1, n))

\* C26: the scanner is never in state Others: it is in None or in Rust
\* after every line, and every line that matches the fence pattern while it
\* is in None takes it to Rust and is emitted as the fence labelled rust.
C26_OthersUnreachable ==
    pc = "filtered"
      => \A ls \in {lines(input)} :
            /\ result.val = JoinWith(Scanned(ls, Len(ls)).filtered_docs, "\n")
            /\ \A n \in 0..Len(ls) : Scanned(ls, n).stat \in {"None", "Rust"}
            /\ \A n \in 1..Len(ls) :
                  (Scanned(ls, n - 1).stat = "None" /\ re_code(ls[n]).some)
                    => /\ Scanned(ls, n).stat = "Rust"
                       /\ Scanned(ls, n).filtered_docs
                            = Append(Scanned(ls, n - 1).filtered_docs, Fence \o "rust")

\* a text with a python fence and, after it, a bare fence met outside a block
C26_Witness ==
    /\ pc = "filtered"
    /\ input = Fence \o "python\n# hidden\n" \o Fence \o "\n# hidden"
    /\ result.val = Fence \o "python\n# hidden\n" \o Fence \o "rust"

(***************************************************************************)
(* hide_code_block_lines applied to its own output.                        *)
(***************************************************************************)
\* C27: the filter applied to the line sequence it produced gives that line
\* sequence again.
C27_Idempotent ==
    pc = "filtered"
      => \A fs \in {Scanned(lines(input), Len(lines(input))).filtered_docs} :
            /\ result.val = JoinWith(fs, "\n")
            /\ Scanned(fs, Len(fs)).filtered_docs = fs

\* a text of which the first pass rewrote the fence and hid a line
C27_Witness ==
    /\ pc = "filtered"
    /\ input = Fence \o "\n# hidden\nvisible\n" \o Fence
    /\ result.val = Fence \o "rust\nvisible\n" \o Fence
    /\ hide_code_block_lines(result.val) = result.val

====
